---- MODULE Spec2Model ----
(***************************************************************************)
(* Model of the PKI backend of pradeepchhetri/vault: the role store        *)
(* (path_roles.go, here src/unnamed/part_000), the CA configuration paths  *)
(* (path_config_ca.go, here src/unnamed/part_001) and the certificate      *)
(* utilities (src/builtin/logical/pki/cert_util.go).                       *)
(*                                                                         *)
(* Conventions.  A Go string or byte slice is a sequence: the empty string *)
(* and a nil/empty slice are <<>>.  A Go pointer is a sequence of length   *)
(* at most one: nil is <<>>, a pointer to x is <<x>>.  Names (common       *)
(* names, domains) are sequences of one-character strings.  Durations are  *)
(* whole hours.  One request is one action: time.Now() has one value per   *)
(* request (the model's clock is coarser than a handler's run time).       *)
(***************************************************************************)
EXTENDS Integers, Sequences, FiniteSets, TLC

\* ------------------------------------------------------------------ bounds

\* Number of key pairs the backend may generate in one behaviour.
MaxKeys == 1

\* ----------------------------------------------------------------- strings

Nil == <<>>

Some(x) == <<x>>

IsNil(p) == Len(p) = 0

Deref(p) == p[1]

\* strings.Contains(s, c) for a one-character c
Contains(s, c) == \E i \in 1..Len(s) : s[i] = c

\* strings.HasPrefix
HasPrefix(s, p) == Len(s) >= Len(p) /\ SubSeq(s, 1, Len(p)) = p

\* strings.HasSuffix
HasSuffix(s, p) == Len(s) >= Len(p) /\ SubSeq(s, Len(s) - Len(p) + 1, Len(s)) = p

\* strings.TrimSuffix
TrimSuffix(s, p) == IF HasSuffix(s, p) THEN SubSeq(s, 1, Len(s) - Len(p)) ELSE s

\* strings.Split(s, c) for a one-character separator c: the pieces, in order
RECURSIVE Split(_, _)
Split(s, c) ==
    IF ~Contains(s, c) THEN <<s>>
    ELSE LET i == CHOOSE j \in 1..Len(s) : s[j] = c /\ \A k \in 1..(j - 1) : s[k] # c
         IN  <<SubSeq(s, 1, i - 1)>> \o Split(SubSeq(s, i + 1, Len(s)), c)

AlphaNum == {"a", "b", "c", "d", "e", "f", "g", "h", "i", "j", "k", "l", "m",
             "n", "o", "p", "q", "r", "s", "t", "u", "v", "w", "x", "y", "z",
             "0", "1", "2", "3", "4", "5", "6", "7", "8", "9"}

\* hostnameRegex.MatchString: labels joined by dots, the whole string
\* anchored; one label is
\* [a-zA-Z0-9] | [a-zA-Z0-9][a-zA-Z0-9\-]*[a-zA-Z0-9]
HostnameMatch(s) ==
    LET labels == Split(s, ".")
    IN  \A i \in 1..Len(labels) :
            /\ Len(labels[i]) >= 1
            /\ labels[i][1] \in AlphaNum
            /\ labels[i][Len(labels[i])] \in AlphaNum
            /\ \A j \in 1..Len(labels[i]) : labels[i][j] \in AlphaNum \cup {"-"}

\* Clauses that accept subdomains of `base` and no wildcard
SubdomainOnly(sanitizedName, isWildcard, base, role) ==
    /\ HasSuffix(sanitizedName, <<".">> \o base)
    /\ HostnameMatch(TrimSuffix(sanitizedName, <<".">> \o base))

\* The clauses of validateNames that accept subdomains of `base` and the
\* wildcard of the role's allowed base domain.
SubdomainOrWildcard(sanitizedName, isWildcard, base, role) ==
    \/ /\ HasSuffix(sanitizedName, <<".">> \o base)
       /\ HostnameMatch(TrimSuffix(sanitizedName, <<".">> \o base))
    \/ isWildcard /\ sanitizedName = role.AllowedBaseDomain

\* A loop body under which AllowLocalhost admits localhost and nothing else
NameAllowedLocalOnly(name, role, displayName) ==
    IF role.AllowLocalhost THEN name = <<"l", "o", "c", "a", "l", "h", "o", "s", "t">>
    ELSE role.AllowAnyName \/ name = displayName

\* A loop body that tests AllowAnyName before the hostname pattern
NameAllowedAnyNameFirst(name, role, displayName) ==
    LET hasAt == Contains(name, "@")
        splitEmail == Split(name, "@")
        isEmail == hasAt
        afterAt == IF hasAt /\ Len(splitEmail) = 2 THEN splitEmail[2] ELSE name
        emailDomain == afterAt
        isWildcard == HasPrefix(afterAt, <<"*", ".">>)
        sanitizedName == IF isWildcard THEN SubSeq(afterAt, 3, Len(afterAt)) ELSE afterAt
    IN  /\ hasAt => (role.EmailProtectionFlag \/ role.AllowAnyName)
        /\ hasAt => Len(splitEmail) = 2
        /\ \/ role.AllowAnyName
           \/ /\ role.EnforceHostnames => HostnameMatch(sanitizedName)
              /\ \/ /\ role.AllowLocalhost
                    /\ \/ name = <<"l", "o", "c", "a", "l", "h", "o", "s", "t">>
                       \/ isEmail /\ emailDomain = <<"l", "o", "c", "a", "l", "h", "o", "s", "t">>
                       \/ /\ role.AllowSubdomains
                          /\ SubdomainOrWildcard(sanitizedName, isWildcard, displayName, role)
                 \/ /\ role.AllowTokenDisplayName
                    /\ \/ name = displayName
                       \/ isEmail /\ emailDomain = displayName
                       \/ /\ role.AllowSubdomains
                          /\ SubdomainOrWildcard(sanitizedName, isWildcard, displayName, role)
                 \/ /\ Len(role.AllowedBaseDomain) # 0
                    /\ \/ /\ role.AllowBaseDomain
                          /\ \/ name = role.AllowedBaseDomain
                             \/ isEmail /\ emailDomain = role.AllowedBaseDomain
                       \/ /\ role.AllowSubdomains
                          /\ SubdomainOrWildcard(sanitizedName, isWildcard,
                                                 role.AllowedBaseDomain, role)

\* A loop body that takes the text after the last "@" as the e-mail domain,
\* however many "@" the name has
NameAllowedLastAt(name, role, displayName) ==
    LET hasAt == Contains(name, "@")
        splitEmail == Split(name, "@")
        isEmail == hasAt
        afterAt == splitEmail[Len(splitEmail)]
        emailDomain == afterAt
        isWildcard == HasPrefix(afterAt, <<"*", ".">>)
        sanitizedName == IF isWildcard THEN SubSeq(afterAt, 3, Len(afterAt)) ELSE afterAt
    IN  /\ hasAt => (role.EmailProtectionFlag \/ role.AllowAnyName)
        /\ role.EnforceHostnames => HostnameMatch(sanitizedName)
        /\ \/ role.AllowAnyName
           \/ /\ role.AllowLocalhost
              /\ \/ name = <<"l", "o", "c", "a", "l", "h", "o", "s", "t">>
                 \/ isEmail /\ emailDomain = <<"l", "o", "c", "a", "l", "h", "o", "s", "t">>
                 \/ /\ role.AllowSubdomains
                    /\ SubdomainOrWildcard(sanitizedName, isWildcard, displayName, role)
           \/ /\ role.AllowTokenDisplayName
              /\ \/ name = displayName
                 \/ isEmail /\ emailDomain = displayName
                 \/ /\ role.AllowSubdomains
                    /\ SubdomainOrWildcard(sanitizedName, isWildcard, displayName, role)
           \/ /\ Len(role.AllowedBaseDomain) # 0
              /\ \/ /\ role.AllowBaseDomain
                    /\ \/ name = role.AllowedBaseDomain
                       \/ isEmail /\ emailDomain = role.AllowedBaseDomain
                 \/ /\ role.AllowSubdomains
                    /\ SubdomainOrWildcard(sanitizedName, isWildcard,
                                           role.AllowedBaseDomain, role)

\* The body of validateNames' loop for one name: TRUE when the name passes
\* (the loop continues), FALSE when the name is returned as the bad name.
NameAllowed(name, role, displayName) ==
    LET hasAt == Contains(name, "@")
        splitEmail == Split(name, "@")
        isEmail == hasAt
        afterAt == IF hasAt /\ Len(splitEmail) = 2 THEN splitEmail[2] ELSE name
        emailDomain == afterAt
        isWildcard == HasPrefix(afterAt, <<"*", ".">>)
        sanitizedName == IF isWildcard THEN SubSeq(afterAt, 3, Len(afterAt)) ELSE afterAt
    IN  /\ hasAt => (role.EmailProtectionFlag \/ role.AllowAnyName)
        /\ hasAt => Len(splitEmail) = 2
        /\ role.EnforceHostnames => HostnameMatch(sanitizedName)
        /\ \/ role.AllowAnyName
           \/ /\ role.AllowLocalhost
              /\ \/ name = <<"l", "o", "c", "a", "l", "h", "o", "s", "t">>
                 \/ isEmail /\ emailDomain = <<"l", "o", "c", "a", "l", "h", "o", "s", "t">>
                 \/ /\ role.AllowSubdomains
                    /\ SubdomainOrWildcard(sanitizedName, isWildcard, displayName, role)
           \/ /\ role.AllowTokenDisplayName
              /\ \/ name = displayName
                 \/ isEmail /\ emailDomain = displayName
                 \/ /\ role.AllowSubdomains
                    /\ SubdomainOrWildcard(sanitizedName, isWildcard, displayName, role)
           \/ /\ Len(role.AllowedBaseDomain) # 0
              /\ \/ /\ role.AllowBaseDomain
                    /\ \/ name = role.AllowedBaseDomain
                       \/ isEmail /\ emailDomain = role.AllowedBaseDomain
                 \/ /\ role.AllowSubdomains
                    /\ SubdomainOrWildcard(sanitizedName, isWildcard,
                                           role.AllowedBaseDomain, role)

\* validateNames: the first name of `names` that is not allowed, or <<>>
RECURSIVE validateNames(_, _, _)
validateNames(names, role, displayName) ==
    IF Len(names) = 0 THEN <<>>
    ELSE IF ~NameAllowed(Head(names), role, displayName) THEN Head(names)
    ELSE validateNames(Tail(names), role, displayName)

\* --------------------------------------------------------------- durations

\* time.ParseDuration, in hours
ParseDuration(s) ==
    CASE s = "1h"   -> [ok |-> TRUE, d |-> 1]
      [] s = "168h" -> [ok |-> TRUE, d |-> 168]
      [] s = "336h" -> [ok |-> TRUE, d |-> 336]
      [] s = "720h" -> [ok |-> TRUE, d |-> 720]
      [] OTHER      -> [ok |-> FALSE, d |-> 0]

\* ------------------------------------------------------- keys, certificates

\* certutil's private key types (ParsedCertBundle.PrivateKeyType)
UnknownPrivateKey == "UnknownPrivateKey"

RSAPrivateKey == "RSAPrivateKey"

ECPrivateKey == "ECPrivateKey"

\* A private key is [id, type]; its public key is determined by id.
Key(id, type) == [id |-> id, type |-> type]

\* crypto.Signer.Public()
Public(key) == [pub |-> key.id, type |-> key.type]

\* x509.MarshalPKCS1PrivateKey / x509.MarshalECPrivateKey
MarshalPrivateKey(key) == <<"KEYDER", key>>

\* x509.ParsePKCS1PrivateKey / x509.ParseECPrivateKey
ParsePrivateKey(bytes) == bytes[2]

\* certutil.GetSubjKeyID and sha1.Sum(MarshalPKIXPublicKey(pub))
SubjKeyID(pub) == <<"SKI", pub.pub>>

\* certUsage bits (cert_util.go)
serverUsage == 1

clientUsage == 2

codeSigningUsage == 4

emailProtectionUsage == 8

\* usage & bit != 0
HasUsage(usage, bit) == (usage \div bit) % 2 = 1

\* The ExtKeyUsage list createCertificate and signCertificate append, in order
ExtKeyUsageOf(usage) ==
    (IF HasUsage(usage, serverUsage) THEN <<"ServerAuth">> ELSE <<>>)
    \o (IF HasUsage(usage, clientUsage) THEN <<"ClientAuth">> ELSE <<>>)
    \o (IF HasUsage(usage, codeSigningUsage) THEN <<"CodeSigning">> ELSE <<>>)
    \o (IF HasUsage(usage, emailProtectionUsage) THEN <<"EmailProtection">> ELSE <<>>)

\* An encoding that loses the CA flag of the basic constraints
CreateCertificateDERLeaf(template, parent, pub, priv) ==
    <<"CERTDER",
      [template EXCEPT !.PublicKey = pub,
                       !.Issuer = parent.Subject,
                       !.AuthorityKeyId = parent.SubjectKeyId,
                       !.SignedBy = Public(priv),
                       !.IsCA = FALSE]>>

\* x509.CreateCertificate: the DER bytes of `template` issued by `parent` for
\* public key `pub`, signed with `priv`.  The encoding keeps MaxPathLen only
\* when it is positive or flagged as an explicit zero; otherwise the parsed
\* certificate reads -1.
CreateCertificateDER(template, parent, pub, priv) ==
    LET mpl == IF template.MaxPathLen = 0 /\ ~template.MaxPathLenZero
               THEN -1 ELSE template.MaxPathLen
    IN  <<"CERTDER",
          [template EXCEPT !.PublicKey = pub,
                           !.Issuer = parent.Subject,
                           !.AuthorityKeyId = parent.SubjectKeyId,
                           !.SignedBy = Public(priv),
                           !.MaxPathLen = mpl,
                           !.MaxPathLenZero = (mpl = 0)]>>

\* x509.ParseCertificate
ParseCertificate(bytes) == bytes[2]

\* A certificate template with every field of the model set
Template(serial, cn, notBefore, notAfter, keyUsage, extKeyUsage, isCA, ski, dnsNames, emailAddresses, ipAddresses, maxPathLen, maxPathLenZero, sigAlg) ==
    [SerialNumber |-> serial, Subject |-> cn, NotBefore |-> notBefore,
     NotAfter |-> notAfter, KeyUsage |-> keyUsage, ExtKeyUsage |-> extKeyUsage,
     BasicConstraintsValid |-> TRUE, IsCA |-> isCA, SubjectKeyId |-> ski,
     DNSNames |-> dnsNames, EmailAddresses |-> emailAddresses,
     IPAddresses |-> ipAddresses, MaxPathLen |-> maxPathLen,
     MaxPathLenZero |-> maxPathLenZero, SignatureAlgorithm |-> sigAlg,
     PublicKey |-> Nil, Issuer |-> Nil, AuthorityKeyId |-> Nil, SignedBy |-> Nil]

\* The signature algorithm chosen from a private key type
SigAlgOfKeyType(t) ==
    CASE t = RSAPrivateKey -> "SHA256WithRSA"
      [] t = ECPrivateKey  -> "ECDSAWithSHA256"
      [] OTHER             -> "UnknownSignatureAlgorithm"

\* ------------------------------------------------------------------ bundles

\* certutil.ParsedCertBundle
ParsedCertBundle(keyType, keyBytes, key, caBytes, ca, certBytes, cert) ==
    [PrivateKeyType |-> keyType, PrivateKeyBytes |-> keyBytes, PrivateKey |-> key,
     IssuingCABytes |-> caBytes, IssuingCA |-> ca,
     CertificateBytes |-> certBytes, Certificate |-> cert]

\* pem.EncodeToMemory of one block
PEMEncode(blockType, bytes) == <<"PEM", blockType, bytes>>

\* pem.Decode: the block's bytes
PEMBytes(pemString) == pemString[3]

\* Serial number formatting of a certificate bundle: hex pairs joined by ":"
FormatSerial(n) ==
    LET HexDigits == <<"0", "1", "2", "3", "4", "5", "6", "7", "8", "9",
                       "a", "b", "c", "d", "e", "f">>
    IN  HexDigits[((n \div 16) % 16) + 1] \o HexDigits[(n % 16) + 1]

\* certutil.CertBundle's private_key_type string
KeyTypeString(t) ==
    CASE t = RSAPrivateKey -> "rsa"
      [] t = ECPrivateKey  -> "ec"
      [] OTHER             -> ""

\* ParsedCertBundle.ToCertBundle: the PEM form stored and returned
ToCertBundle(p) ==
    [Certificate    |-> IF Len(p.CertificateBytes) > 0
                        THEN PEMEncode("CERTIFICATE", p.CertificateBytes) ELSE <<>>,
     IssuingCA      |-> IF Len(p.IssuingCABytes) > 0
                        THEN PEMEncode("CERTIFICATE", p.IssuingCABytes) ELSE <<>>,
     PrivateKey     |-> IF Len(p.PrivateKeyBytes) > 0
                        THEN PEMEncode(IF p.PrivateKeyType = ECPrivateKey
                                       THEN "EC PRIVATE KEY" ELSE "RSA PRIVATE KEY",
                                       p.PrivateKeyBytes)
                        ELSE <<>>,
     PrivateKeyType |-> KeyTypeString(p.PrivateKeyType),
     SerialNumber   |-> IF IsNil(p.Certificate) THEN ""
                        ELSE FormatSerial(Deref(p.Certificate).SerialNumber)]

\* CertBundle.ToParsedCertBundle: decode the PEM strings of a stored bundle
ToParsedCertBundle(cb) ==
    LET hasKey  == Len(cb.PrivateKey) > 0
        hasCert == Len(cb.Certificate) > 0
        hasCA   == Len(cb.IssuingCA) > 0
        key     == IF hasKey THEN ParsePrivateKey(PEMBytes(cb.PrivateKey)) ELSE Nil
    IN  ParsedCertBundle(
            IF ~hasKey THEN UnknownPrivateKey
            ELSE IF cb.PrivateKey[2] = "EC PRIVATE KEY" THEN ECPrivateKey
            ELSE RSAPrivateKey,
            IF hasKey THEN PEMBytes(cb.PrivateKey) ELSE Nil,
            IF hasKey THEN Some(key) ELSE Nil,
            IF hasCA THEN PEMBytes(cb.IssuingCA) ELSE Nil,
            IF hasCA THEN Some(ParseCertificate(PEMBytes(cb.IssuingCA))) ELSE Nil,
            IF hasCert THEN PEMBytes(cb.Certificate) ELSE Nil,
            IF hasCert THEN Some(ParseCertificate(PEMBytes(cb.Certificate))) ELSE Nil)

\* logical.StorageEntryJSON / StorageEntry.DecodeJSON
EncodeJSON(v) == <<"JSON", v>>

DecodeJSON(bytes) == bytes[2]

\* ------------------------------------------------------- creation bundle

\* The error channel of helper/certutil: UserError and InternalError
UserError(msg) == [err |-> "UserError", msg |-> msg, val |-> Nil]

InternalError(msg) == [err |-> "InternalError", msg |-> msg, val |-> Nil]

Ok(v) == [err |-> "none", msg |-> "", val |-> Some(v)]

\* urlEntries with the three empty lists substituted when none is configured
EmptyURLs == [IssuingCertificates |-> <<>>, CRLDistributionPoints |-> <<>>,
              OCSPServers |-> <<>>]

\* The loop over strings.Split(cnAlt, ","): entries without "@" go to dnsNames
RECURSIVE AltDNSNames(_)
AltDNSNames(alts) ==
    IF Len(alts) = 0 THEN <<>>
    ELSE (IF Contains(Head(alts), "@") THEN <<>> ELSE <<Head(alts)>>)
         \o AltDNSNames(Tail(alts))

\* The same loop: for each entry with "@" the code appends cn to emailAddresses
RECURSIVE AltEmailAddresses(_, _)
AltEmailAddresses(alts, cn) ==
    IF Len(alts) = 0 THEN <<>>
    ELSE (IF Contains(Head(alts), "@") THEN <<cn>> ELSE <<>>)
         \o AltEmailAddresses(Tail(alts), cn)

\* net.ParseIP(v) # nil, for dotted IPv4 literals of digit groups
ValidIP(v) ==
    LET parts == Split(v, ".")
    IN  /\ Len(parts) = 4
        /\ \A i \in 1..4 : /\ Len(parts[i]) \in 1..3
                           /\ \A j \in 1..Len(parts[i]) : parts[i][j] \in {"0", "1", "2", "3", "4", "5", "6", "7", "8", "9"}

\* The ttl string the builder resolves: the request's when supplied, else role.TTL
TTLField(role, data) == IF IsNil(data.ttl) THEN role.TTL ELSE Deref(data.ttl)

\* A TTL step that caps every ttl above maxTTL, whoever chose it
ResolveTTLAlwaysCap(role, data, defaultLeaseTTL, maxLeaseTTL) ==
    LET ttlField == TTLField(role, data)
        parsed   == ParseDuration(ttlField)
        ttl      == IF ttlField = "" THEN defaultLeaseTTL ELSE parsed.d
        parsedMax == ParseDuration(role.MaxTTL)
        maxTTL   == IF role.MaxTTL = "" THEN maxLeaseTTL ELSE parsedMax.d
    IN  IF ttlField # "" /\ ~parsed.ok THEN UserError("invalid requested ttl")
        ELSE IF role.MaxTTL # "" /\ ~parsedMax.ok THEN UserError("invalid ttl")
        ELSE IF ttl > maxTTL THEN Ok(maxTTL)
        ELSE Ok(ttl)

\* The TTL step of generateCreationBundle: [err, msg, val] with val the ttl
ResolveTTL(role, data, defaultLeaseTTL, maxLeaseTTL) ==
    LET ttlField == TTLField(role, data)
        parsed   == ParseDuration(ttlField)
        ttl      == IF ttlField = "" THEN defaultLeaseTTL ELSE parsed.d
        parsedMax == ParseDuration(role.MaxTTL)
        maxTTL   == IF role.MaxTTL = "" THEN maxLeaseTTL ELSE parsedMax.d
    IN  IF ttlField # "" /\ ~parsed.ok THEN UserError("invalid requested ttl")
        ELSE IF role.MaxTTL # "" /\ ~parsedMax.ok THEN UserError("invalid ttl")
        ELSE IF ttl > maxTTL
             THEN IF ttlField = "" THEN Ok(maxTTL)
                  ELSE UserError("ttl is larger than maximum allowed")
        ELSE Ok(ttl)

\* A max path length step that hands the signer's value down unchanged
ResolveMaxPathLengthInherit(role, signingBundle) ==
    IF ~IsNil(signingBundle)
    THEN IF Deref(Deref(signingBundle).Certificate).MaxPathLen = 0
         THEN UserError("signing CA has a max path length of zero")
         ELSE IF ~IsNil(role.MaxPathLength) THEN Ok(Deref(role.MaxPathLength))
         ELSE Ok(Deref(Deref(signingBundle).Certificate).MaxPathLen)
    ELSE IF IsNil(role.MaxPathLength) THEN Ok(-1)
         ELSE Ok(Deref(role.MaxPathLength))

\* The max path length step: [err, msg, val] with val the bundle's MaxPathLength
ResolveMaxPathLength(role, signingBundle) ==
    IF ~IsNil(signingBundle)
    THEN LET signer == Deref(Deref(signingBundle).Certificate)
         IN  IF signer.MaxPathLen = 0
             THEN UserError("signing CA has a max path length of zero")
             ELSE IF ~IsNil(role.MaxPathLength) THEN Ok(Deref(role.MaxPathLength))
             ELSE IF signer.MaxPathLen < 0 THEN Ok(-1)
             ELSE Ok(signer.MaxPathLen - 1)
    ELSE IF IsNil(role.MaxPathLength) THEN Ok(-1)
         ELSE Ok(Deref(role.MaxPathLength))

\* generateCreationBundle.  data is [common_name, alt_names, ip_sans, ttl], the
\* last three Nil when the request does not carry the field (data.GetOk).  The
\* error for a name that is not allowed carries the name (the %s of its
\* message) in val.
generateCreationBundle(role, signingBundle, csr, data, displayName, defaultLeaseTTL, maxLeaseTTL, now) ==
    LET cnGiven == Len(data.common_name) # 0
        cn == IF cnGiven THEN data.common_name
              ELSE IF ~IsNil(csr) THEN Deref(csr).Subject ELSE <<>>
        alts == IF ~IsNil(data.alt_names) /\ Len(Deref(data.alt_names)) # 0
                THEN Split(Deref(data.alt_names), ",") ELSE <<>>
        dnsNames == (IF Contains(cn, "@") THEN <<>> ELSE <<cn>>) \o AltDNSNames(alts)
        emailAddresses == (IF Contains(cn, "@") THEN <<cn>> ELSE <<>>)
                          \o AltEmailAddresses(alts, cn)
        ips == IF ~IsNil(data.ip_sans) /\ Len(Deref(data.ip_sans)) # 0
               THEN Split(Deref(data.ip_sans), ",") ELSE <<>>
        ttlRes == ResolveTTL(role, data, defaultLeaseTTL, maxLeaseTTL)
        ttl == Deref(ttlRes.val)
        badDNS == validateNames(dnsNames, role, displayName)
        badEmail == validateNames(emailAddresses, role, displayName)
        mplRes == ResolveMaxPathLength(role, signingBundle)
    IN  IF ~cnGiven /\ ~IsNil(csr) /\ ~role.UseCSRCommonName
        THEN UserError("the common_name field must be supplied")
        ELSE IF ~cnGiven /\ IsNil(csr)
        THEN UserError("the common_name field is required")
        ELSE IF Len(ips) # 0 /\ ~role.AllowIPSANs
        THEN UserError("IP Subject Alternative Names are not allowed in this role")
        ELSE IF \E i \in 1..Len(ips) : ~ValidIP(ips[i])
        THEN UserError("not a valid IP address")
        ELSE IF ttlRes.err # "none" THEN ttlRes
        ELSE IF ~IsNil(signingBundle)
                /\ now + ttl > Deref(Deref(signingBundle).Certificate).NotAfter
        THEN UserError("cannot satisfy request, as TTL is beyond the expiration of the CA certificate")
        ELSE IF Len(badDNS) # 0
        THEN [UserError("name %s not allowed by this role") EXCEPT !.val = Some(badDNS)]
        ELSE IF Len(badEmail) # 0
        THEN [UserError("email %s not allowed by this role") EXCEPT !.val = Some(badEmail)]
        ELSE IF mplRes.err # "none" THEN mplRes
        ELSE Ok([CommonName     |-> cn,
                 DNSNames       |-> dnsNames,
                 EmailAddresses |-> emailAddresses,
                 IPAddresses    |-> ips,
                 IsCA           |-> FALSE,
                 KeyType        |-> role.KeyType,
                 KeyBits        |-> role.KeyBits,
                 SigningBundle  |-> signingBundle,
                 TTL            |-> ttl,
                 Usage          |-> (IF role.ServerFlag THEN serverUsage ELSE 0)
                                    + (IF role.ClientFlag THEN clientUsage ELSE 0)
                                    + (IF role.CodeSigningFlag
                                       THEN codeSigningUsage ELSE 0)
                                    + (IF role.EmailProtectionFlag
                                       THEN emailProtectionUsage ELSE 0),
                 UseCSRValues   |-> FALSE,
                 URLs           |-> IF ~IsNil(signingBundle)
                                    THEN Deref(signingBundle).URLs ELSE EmptyURLs,
                 MaxPathLength  |-> Deref(mplRes.val)])

\* ------------------------------------------------------------ certificates

\* The key generation switch of createCertificate and createCSR:
\* [err, msg, val] with val the private key type
KeyTypeOf(creationInfo, unknownMsg) ==
    CASE creationInfo.KeyType = "rsa" -> Ok(RSAPrivateKey)
      [] creationInfo.KeyType = "ec" ->
            IF creationInfo.KeyBits \in {224, 256, 384, 521}
            THEN Ok(ECPrivateKey)
            ELSE UserError("unsupported bit length for EC key")
      [] OTHER -> UserError(unknownMsg)

\* The default KeyUsage of a template
DefaultKeyUsage ==
    {"DigitalSignature", "KeyEncipherment", "KeyAgreement"}

\* createCertificate: a fresh key pair `keyId` and a certificate for it, signed
\* by the signing bundle when there is one and self-signed otherwise.  rngOk
\* is FALSE when the random source fails.
createCertificate(creationInfo, now, serial, keyId, rngOk) ==
    LET kt == KeyTypeOf(creationInfo, "unknown key type")
        key == Key(keyId, Deref(kt.val))
        signed == ~IsNil(creationInfo.SigningBundle)
        signer == Deref(creationInfo.SigningBundle)
        self == creationInfo.MaxPathLength = 0
        template ==
            Template(serial, creationInfo.CommonName, now, now + creationInfo.TTL,
                     IF signed THEN DefaultKeyUsage
                     ELSE DefaultKeyUsage \cup {"CertSign", "CRLSign"},
                     IF signed THEN ExtKeyUsageOf(creationInfo.Usage)
                     ELSE ExtKeyUsageOf(creationInfo.Usage) \o <<"OCSPSigning">>,
                     ~signed,
                     SubjKeyID(Public(key)),
                     creationInfo.DNSNames, creationInfo.EmailAddresses,
                     creationInfo.IPAddresses,
                     IF signed THEN 0 ELSE creationInfo.MaxPathLength,
                     ~signed /\ self,
                     IF signed THEN SigAlgOfKeyType(signer.PrivateKeyType)
                     ELSE SigAlgOfKeyType(Deref(kt.val)))
        certBytes ==
            IF signed
            THEN CreateCertificateDER(template, Deref(signer.Certificate),
                                      Public(key), Deref(signer.PrivateKey))
            ELSE CreateCertificateDER(template, template, Public(key), key)
    IN  IF ~rngOk THEN InternalError("error getting random serial number")
        ELSE IF kt.err # "none" THEN kt
        ELSE IF signed /\ IsNil(signer.PrivateKey)
        THEN InternalError("unable to create certificate")
        ELSE Ok(ParsedCertBundle(
                    Deref(kt.val), MarshalPrivateKey(key), Some(key),
                    IF signed THEN signer.CertificateBytes ELSE certBytes,
                    IF signed THEN signer.Certificate
                    ELSE Some(ParseCertificate(certBytes)),
                    certBytes, Some(ParseCertificate(certBytes))))

\* x509.CreateCertificateRequest then ParseCertificateRequest
CertificateRequest(cn, dnsNames, emailAddresses, ipAddresses, pub, valid) ==
    [Subject |-> cn, DNSNames |-> dnsNames, EmailAddresses |-> emailAddresses,
     IPAddresses |-> ipAddresses, PublicKey |-> pub, Extensions |-> <<>>,
     SignatureValid |-> valid]

\* createCSR: a fresh key pair `keyId` and a request signed with it:
\* a ParsedCSRBundle [PrivateKeyType, PrivateKeyBytes, PrivateKey, CSRBytes, CSR]
createCSR(creationInfo, keyId, rngOk) ==
    LET kt == KeyTypeOf(creationInfo, "unsupported key type for CA generation")
        key == Key(keyId, Deref(kt.val))
        csr == CertificateRequest(creationInfo.CommonName, creationInfo.DNSNames,
                                  creationInfo.EmailAddresses,
                                  creationInfo.IPAddresses, Public(key), TRUE)
    IN  IF kt.err # "none" THEN kt
        ELSE IF ~rngOk THEN InternalError("error generating RSA private key")
        ELSE Ok([PrivateKeyType  |-> Deref(kt.val),
                 PrivateKeyBytes |-> MarshalPrivateKey(key),
                 PrivateKey      |-> Some(key),
                 CSRBytes        |-> <<"CSRDER", csr>>,
                 CSR             |-> Some(csr)])

\* ParsedCSRBundle.ToCSRBundle
ToCSRBundle(p) ==
    [CSR            |-> PEMEncode("CERTIFICATE REQUEST", p.CSRBytes),
     PrivateKey     |-> PEMEncode(IF p.PrivateKeyType = ECPrivateKey
                                  THEN "EC PRIVATE KEY" ELSE "RSA PRIVATE KEY",
                                  p.PrivateKeyBytes),
     PrivateKeyType |-> KeyTypeString(p.PrivateKeyType)]

\* signCertificate: a certificate for the CSR's public key, signed by the
\* signing bundle
signCertificate(creationInfo, csr, now, serial, rngOk) ==
    LET signer == Deref(creationInfo.SigningBundle)
        req == Deref(csr)
        useCSR == creationInfo.UseCSRValues
        template ==
            Template(serial,
                     IF useCSR THEN req.Subject ELSE creationInfo.CommonName,
                     now, now + creationInfo.TTL,
                     IF useCSR THEN {}
                     ELSE IF creationInfo.IsCA
                     THEN DefaultKeyUsage \cup {"CertSign", "CRLSign"}
                     ELSE DefaultKeyUsage,
                     IF useCSR THEN <<>>
                     ELSE IF creationInfo.IsCA
                     THEN ExtKeyUsageOf(creationInfo.Usage) \o <<"OCSPSigning">>
                     ELSE ExtKeyUsageOf(creationInfo.Usage),
                     creationInfo.IsCA,
                     SubjKeyID(req.PublicKey),
                     IF useCSR THEN req.DNSNames ELSE creationInfo.DNSNames,
                     IF useCSR THEN req.EmailAddresses ELSE creationInfo.EmailAddresses,
                     IF useCSR THEN req.IPAddresses ELSE creationInfo.IPAddresses,
                     IF creationInfo.IsCA THEN creationInfo.MaxPathLength ELSE 0,
                     creationInfo.IsCA /\ creationInfo.MaxPathLength = 0,
                     SigAlgOfKeyType(signer.PrivateKeyType))
        certBytes == CreateCertificateDER(template, Deref(signer.Certificate),
                                          req.PublicKey, Deref(signer.PrivateKey))
    IN  IF IsNil(creationInfo.SigningBundle)
        THEN UserError("nil signing bundle given to signCertificate")
        ELSE IF IsNil(csr) THEN UserError("nil csr given to signCertificate")
        ELSE IF ~req.SignatureValid THEN UserError("request signature invalid")
        ELSE IF ~rngOk THEN InternalError("error getting random serial number")
        ELSE IF IsNil(signer.PrivateKey)
        THEN InternalError("unable to create certificate")
        ELSE Ok(ParsedCertBundle(
                    UnknownPrivateKey, Nil, Nil,
                    signer.CertificateBytes, signer.Certificate,
                    certBytes, Some(ParseCertificate(certBytes))))

\* generateCert after generateCreationBundle returned
CertFromBundle(cbRes, isCA, now, serial, keyId, rngOk) ==
    IF cbRes.err # "none" THEN cbRes
    ELSE createCertificate(IF isCA THEN [Deref(cbRes.val) EXCEPT !.IsCA = TRUE]
                           ELSE Deref(cbRes.val),
                           now, serial, keyId, rngOk)

\* generateCert: the creation bundle, then createCertificate
generateCert(role, signingBundle, isCA, data, displayName, defaultLeaseTTL, maxLeaseTTL, now, serial, keyId, rngOk) ==
    CertFromBundle(generateCreationBundle(role, signingBundle, Nil, data, displayName,
                                          defaultLeaseTTL, maxLeaseTTL, now),
                   isCA, now, serial, keyId, rngOk)

\* generateCSR: the creation bundle, then createCSR
generateCSR(role, signingBundle, data, displayName, defaultLeaseTTL, maxLeaseTTL, now, keyId, rngOk) ==
    LET cbRes == generateCreationBundle(role, signingBundle, Nil, data, displayName,
                                        defaultLeaseTTL, maxLeaseTTL, now)
    IN  IF cbRes.err # "none" THEN cbRes
        ELSE createCSR(Deref(cbRes.val), keyId, rngOk)

\* ------------------------------------------------------------------ storage

\* logical.Storage: a map from key to entry; <<>> is "no entry"
Get(s, k) == s[k]

Put(s, k, v) == [s EXCEPT ![k] = Some(v)]

\* The values rand.Int yields for a serial number in the model.  Two requests
\* may draw the same serial, as they may (improbably) in the code.
Serials == {1}

\* The storage key of an issued certificate
CertKey(serial) == "certs/" \o FormatSerial(serial)

\* The role names requests use: "old" is a role saved by an earlier version
RoleNames == {"web", "old"}

RoleKey(n) == "role/" \o n

StorageKeys ==
    {"config/ca_bundle", "ca", "crl"}
    \cup {CertKey(n) : n \in Serials}
    \cup {RoleKey(n) : n \in RoleNames}

\* ---------------------------------------------------------------- responses

\* logical.ErrorResponse
ErrorResponse(msg) == Some([IsError |-> TRUE, Data |-> [error |-> msg]])

\* &logical.Response{Data: data}
Response(data) == Some([IsError |-> FALSE, Data |-> data])

\* What a handler leaves behind: the storage, the (*logical.Response, error)
\* pair it returns, the typed error a callee raised (Nil when none) and the
\* key pair it generated (Nil when none).
Outcome(s, resp, err, raised, key) ==
    [storage |-> s, resp |-> resp, err |-> err, raised |-> raised, key |-> key]

\* return logical.ErrorResponse(msg), nil
Refuse(s, msg) == Outcome(s, ErrorResponse(msg), Nil, Nil, Nil)

\* The switch err.(type) after generateCert, generateCSR and signCert
ByErrorType(s, e) ==
    IF e.err = "UserError"
    THEN Outcome(s, ErrorResponse(e.msg), Nil, Some(e), Nil)
    ELSE Outcome(s, Nil, Some(e), Some(e), Nil)

\* ------------------------------------------------------------------- roles

\* The zero value of roleEntry
ZeroRole ==
    [LeaseMax |-> "", Lease |-> "", MaxTTL |-> "", TTL |-> "",
     AllowLocalhost |-> FALSE, AllowedBaseDomain |-> <<>>,
     AllowBaseDomain |-> FALSE, AllowTokenDisplayName |-> FALSE,
     AllowSubdomains |-> FALSE, AllowAnyName |-> FALSE,
     EnforceHostnames |-> FALSE, AllowIPSANs |-> FALSE,
     ServerFlag |-> FALSE, ClientFlag |-> FALSE, CodeSigningFlag |-> FALSE,
     EmailProtectionFlag |-> FALSE, KeyType |-> "", KeyBits |-> 0,
     UseCSRCommonName |-> FALSE, MaxPathLength |-> Nil]

\* The role the CA paths build for themselves
CARole(ttl, keyType, keyBits) ==
    [ZeroRole EXCEPT !.TTL = ttl, !.KeyType = keyType, !.KeyBits = keyBits,
                     !.AllowLocalhost = TRUE, !.AllowAnyName = TRUE,
                     !.EnforceHostnames = FALSE]

\* ------------------------------------------------------------ CA handlers

\* req.MountPoint
MountPoint == <<"pki", "/">>

\* strings.Contains(s, sub) over token sequences
ContainsSeq(s, sub) ==
    \E i \in 1..(Len(s) - Len(sub) + 1) : SubSeq(s, i, i + Len(sub) - 1) = sub

\* fetchCAInfo once the entry is decoded and parsed
CAInfoOf(parsedBundle) ==
    IF IsNil(parsedBundle.Certificate)
    THEN InternalError("stored CA information not able to be parsed")
    ELSE Ok(parsedBundle @@ [URLs |-> EmptyURLs])

\* fetchCAInfo: the signing context from config/ca_bundle
fetchCAInfo(s) ==
    IF IsNil(Get(s, "config/ca_bundle"))
    THEN UserError("backend must be configured with a CA certificate/key")
    ELSE CAInfoOf(ToParsedCertBundle(DecodeJSON(Deref(Get(s, "config/ca_bundle")))))

\* The request data generateCreationBundle reads
BundleData(req) ==
    [common_name |-> req.common_name, alt_names |-> req.alt_names,
     ip_sans |-> req.ip_sans, ttl |-> req.ttl]

\* Writes that store the bundle and mirror the certificate but leave `crl`
StoreCAKeepCRL(s, cb, certificateBytes, puts) ==
    Put(Put(s, "config/ca_bundle", EncodeJSON(cb)), "ca", certificateBytes)

\* The three writes that end pathCAGenerateRoot and pathCASetWrite, made one
\* after the other until req.Storage.Put fails: `puts` is the number of
\* writes the storage accepts
StoreCA(s, cb, certificateBytes, puts) ==
    IF puts = 0 THEN s
    ELSE IF puts = 1 THEN Put(s, "config/ca_bundle", EncodeJSON(cb))
    ELSE IF puts = 2
    THEN Put(Put(s, "config/ca_bundle", EncodeJSON(cb)), "ca", certificateBytes)
    ELSE Put(Put(Put(s, "config/ca_bundle", EncodeJSON(cb)),
                 "ca", certificateBytes),
             "crl", <<>>)

\* Response data that carries the private key whatever `exported` is
RootDataAlways(req, parsedBundle, cb) ==
    [serial_number    |-> cb.SerialNumber,
     certificate      |-> cb.Certificate,
     issuing_ca       |-> cb.IssuingCA,
     expiration       |-> Deref(parsedBundle.Certificate).NotAfter,
     private_key      |-> cb.PrivateKey,
     private_key_type |-> cb.PrivateKeyType]

\* The response data of pathCAGenerateRoot
RootData(req, parsedBundle, cb) ==
    LET base == [serial_number |-> cb.SerialNumber,
                 certificate   |-> cb.Certificate,
                 issuing_ca    |-> cb.IssuingCA,
                 expiration    |-> Deref(parsedBundle.Certificate).NotAfter]
    IN  IF req.exported = "exported"
        THEN base @@ [private_key |-> cb.PrivateKey,
                      private_key_type |-> cb.PrivateKeyType]
        ELSE base

\* The error of a failed req.Storage.Put, returned as it is
StorageError == [err |-> "StorageError", msg |-> "storage write failed", val |-> Nil]

\* pathCAGenerateRoot from the response on: the three writes, and the response
\* when none of them failed
RootRespond(s, req, parsedBundle, cb, puts) ==
    IF puts < 3
    THEN Outcome(StoreCA(s, cb, parsedBundle.CertificateBytes, puts),
                 Nil, Some(StorageError), Nil, parsedBundle.PrivateKey)
    ELSE Outcome(StoreCA(s, cb, parsedBundle.CertificateBytes, puts),
                 Response(RootData(req, parsedBundle, cb)), Nil, Nil,
                 parsedBundle.PrivateKey)

\* pathCAGenerateRoot after generateCert returned
RootStore(s, req, certRes, puts) ==
    IF certRes.err # "none" THEN ByErrorType(s, certRes)
    ELSE RootRespond(s, req, Deref(certRes.val), ToCertBundle(Deref(certRes.val)), puts)

\* pathCAGenerateRoot
pathCAGenerateRoot(s, req, displayName, defaultLeaseTTL, maxLeaseTTL, now, serial, keyId, rngOk, puts) ==
    IF req.exported \notin {"exported", "internal"}
    THEN Refuse(s, "The \"exported\" path parameter must be \"internal\" or \"exported\"")
    ELSE IF Len(req.pki_address) = 0
    THEN Refuse(s, "\"pki_address\" cannot be empty")
    ELSE IF ~HasPrefix(req.pki_address, <<"http">>)
    THEN Refuse(s, "\"pki_address\" must be a URL")
    ELSE IF ~ContainsSeq(req.pki_address, <<"/v1/">>)
    THEN Refuse(s, "\"pki_address\" needs to be the path to the PKI mount")
    ELSE IF ~ContainsSeq(req.pki_address,
                         <<"/v1/">> \o SubSeq(MountPoint, 1, Len(MountPoint) - 1))
    THEN Refuse(s, "\"pki_address\" needs to be the path to this mount")
    ELSE IF req.key_bits \notin {1024, 2048, 4096}
    THEN Refuse(s, "\"key_bits\" must be 1024, 2048, or 4096")
    ELSE RootStore(s, req,
                   generateCert(CARole(IF IsNil(req.ttl) THEN "" ELSE Deref(req.ttl),
                                       "rsa", req.key_bits),
                                Nil, TRUE, BundleData(req), displayName,
                                defaultLeaseTTL, maxLeaseTTL, now, serial, keyId, rngOk),
                   puts)

\* The response data of pathCAGenerateIntermediate
IntermediateData(req, csrb) ==
    IF req.exported = "exported"
    THEN [csr |-> csrb.CSR, private_key |-> csrb.PrivateKey,
          private_key_type |-> csrb.PrivateKeyType]
    ELSE [csr |-> csrb.CSR]

\* A response that leaves config/ca_bundle as it was
IntermediateRespondUnstored(s, req, parsedBundle, csrb, puts) ==
    Outcome(s, Response(IntermediateData(req, csrb)), Nil, Nil,
            parsedBundle.PrivateKey)

\* pathCAGenerateIntermediate from the response on: the response and the
\* key-only bundle written to config/ca_bundle
IntermediateRespond(s, req, parsedBundle, csrb, puts) ==
    IF puts < 1
    THEN Outcome(s, Nil, Some(StorageError), Nil, parsedBundle.PrivateKey)
    ELSE Outcome(Put(s, "config/ca_bundle",
                     EncodeJSON([Certificate |-> <<>>, IssuingCA |-> <<>>,
                                 PrivateKey |-> csrb.PrivateKey,
                                 PrivateKeyType |-> csrb.PrivateKeyType,
                                 SerialNumber |-> ""])),
                 Response(IntermediateData(req, csrb)), Nil, Nil,
                 parsedBundle.PrivateKey)

\* pathCAGenerateIntermediate after generateCSR returned
IntermediateStore(s, req, csrRes, puts) ==
    IF csrRes.err # "none" THEN ByErrorType(s, csrRes)
    ELSE IntermediateRespond(s, req, Deref(csrRes.val),
                             ToCSRBundle(Deref(csrRes.val)), puts)

\* pathCAGenerateIntermediate.  The request carries the fields
\* generateCreationBundle reads (common_name, alt_names, ip_sans, ttl).
pathCAGenerateIntermediate(s, req, displayName, defaultLeaseTTL, maxLeaseTTL, now, keyId, rngOk, puts) ==
    IF req.exported \notin {"exported", "internal"}
    THEN Refuse(s, "The \"exported\" path parameter must be \"internal\" or \"exported\"")
    ELSE IF req.key_bits \notin {0, 1024, 2048, 4096}
    THEN Refuse(s, "\"key_bits\" must be 1024, 2048, or 4096")
    ELSE IntermediateStore(s, req,
                           generateCSR(CARole("", "rsa",
                                              IF req.key_bits = 0 THEN 2048
                                              ELSE req.key_bits),
                                       Nil, BundleData(req), displayName,
                                       defaultLeaseTTL, maxLeaseTTL, now, keyId, rngOk),
                           puts)

\* signCert after generateCreationBundle returned
SignWithBundle(cbRes, isCA, useCSRValues, csr, now, serial, rngOk) ==
    IF cbRes.err # "none" THEN cbRes
    ELSE signCertificate(IF isCA
                         THEN [Deref(cbRes.val) EXCEPT !.IsCA = TRUE,
                                                       !.UseCSRValues = useCSRValues]
                         ELSE Deref(cbRes.val),
                         csr, now, serial, rngOk)

\* signCert: decode and parse the request's csr, build the creation bundle,
\* sign.  isCA and useCSRValues are the caller's.
signCert(role, signingBundle, isCA, useCSRValues, req, displayName, defaultLeaseTTL, maxLeaseTTL, now, serial, rngOk) ==
    IF Len(req.csr) = 0 THEN UserError("\"csr\" is empty")
    ELSE IF ~(Len(req.csr) = 3 /\ req.csr[1] = "PEM")
    THEN UserError("csr contains no data")
    ELSE IF ~(Len(PEMBytes(req.csr)) = 2 /\ PEMBytes(req.csr)[1] = "CSRDER")
    THEN UserError("certificate request could not be parsed")
    ELSE SignWithBundle(
             generateCreationBundle(role, signingBundle, Some(PEMBytes(req.csr)[2]),
                                    BundleData(req), displayName,
                                    defaultLeaseTTL, maxLeaseTTL, now),
             isCA, useCSRValues, Some(PEMBytes(req.csr)[2]), now, serial, rngOk)

\* The error pathCASignWrite returns when fetchCAInfo fails
SignFetchError(s, caErr) ==
    Outcome(s, Nil,
            Some([err |-> caErr.err,
                  msg |-> IF caErr.err = "UserError"
                          THEN "could not fetch the CA certificate (was one set?)"
                          ELSE "error fetching CA certificate",
                  val |-> Nil]),
            Some(caErr), Nil)

\* A response that skips the write of the certs/ entry
SignRespondUnstored(s, parsedBundle, cb, puts) ==
    Outcome(s,
            Response([certificate      |-> cb.Certificate,
                      issuing_ca       |-> cb.IssuingCA,
                      private_key      |-> cb.PrivateKey,
                      private_key_type |-> cb.PrivateKeyType,
                      serial_number    |-> cb.SerialNumber]),
            Nil, Nil, Nil)

\* A response that is returned whether or not the certs/ entry was written
SignRespondBestEffort(s, parsedBundle, cb, puts) ==
    Outcome(IF puts < 1 THEN s
            ELSE Put(s, "certs/" \o cb.SerialNumber, parsedBundle.CertificateBytes),
            Response([certificate      |-> cb.Certificate,
                      issuing_ca       |-> cb.IssuingCA,
                      private_key      |-> cb.PrivateKey,
                      private_key_type |-> cb.PrivateKeyType,
                      serial_number    |-> cb.SerialNumber]),
            Nil, Nil, Nil)

\* pathCASignWrite from the response on: the response and the certs/ entry
SignRespond(s, parsedBundle, cb, puts) ==
    IF puts < 1
    THEN Outcome(s, Nil,
                 Some([StorageError EXCEPT
                          !.msg = "Unable to store certificate locally"]),
                 Nil, Nil)
    ELSE Outcome(Put(s, "certs/" \o cb.SerialNumber, parsedBundle.CertificateBytes),
                 Response([certificate      |-> cb.Certificate,
                           issuing_ca       |-> cb.IssuingCA,
                           private_key      |-> cb.PrivateKey,
                           private_key_type |-> cb.PrivateKeyType,
                           serial_number    |-> cb.SerialNumber]),
                 Nil, Nil, Nil)

\* pathCASignWrite after signCert returned
SignStore(s, signRes, puts) ==
    IF signRes.err # "none" THEN ByErrorType(s, signRes)
    ELSE SignRespond(s, Deref(signRes.val), ToCertBundle(Deref(signRes.val)), puts)

\* pathCASignWrite after fetchCAInfo returned
SignIssue(s, req, caRes, displayName, defaultLeaseTTL, maxLeaseTTL, now, serial, rngOk, puts) ==
    IF caRes.err # "none" THEN SignFetchError(s, caRes)
    ELSE SignStore(s,
             signCert([ZeroRole EXCEPT
                          !.TTL = IF IsNil(req.ttl) THEN "" ELSE Deref(req.ttl),
                          !.AllowLocalhost = TRUE, !.AllowAnyName = TRUE,
                          !.EnforceHostnames = FALSE],
                      caRes.val, TRUE, FALSE, req, displayName,
                      defaultLeaseTTL, maxLeaseTTL, now, serial, rngOk),
             puts)

\* pathCASignWrite
pathCASignWrite(s, req, displayName, defaultLeaseTTL, maxLeaseTTL, now, serial, rngOk, puts) ==
    IF Len(req.pki_address) = 0
    THEN Refuse(s, "\"pki_address\" cannot be empty")
    ELSE IF ~HasPrefix(req.pki_address, <<"http">>)
    THEN Refuse(s, "\"pki_address\" must be a URL")
    ELSE IF ~ContainsSeq(req.pki_address, <<"/v1/">>)
    THEN Refuse(s, "\"pki_address\" needs to be the path to the PKI mount")
    ELSE IF ContainsSeq(req.pki_address, <<"/v1/">> \o MountPoint)
    THEN Refuse(s, "\"pki_address\" needs to be the path to the destination mount")
    ELSE SignIssue(s, req, fetchCAInfo(s), displayName, defaultLeaseTTL,
                   maxLeaseTTL, now, serial, rngOk, puts)

\* One PEM block of an uploaded bundle, by what it decodes to
IsKeyBlock(b) == b[2] \in {"RSA PRIVATE KEY", "EC PRIVATE KEY"}

IsCertBlock(b) == b[2] = "CERTIFICATE"

\* certutil.ParsePEMBundle over the bundle's blocks, starting from `acc`: a
\* private key fills the key fields (a second one is refused), a certificate
\* marked as CA becomes the issuing CA, any other certificate the certificate.
RECURSIVE ParsePEMBlocks(_, _)
ParsePEMBlocks(blocks, acc) ==
    IF Len(blocks) = 0 THEN Ok(acc)
    ELSE IF IsKeyBlock(Head(blocks))
    THEN IF acc.PrivateKeyType # UnknownPrivateKey
         THEN UserError("more than one private key given")
         ELSE ParsePEMBlocks(Tail(blocks),
                  [acc EXCEPT !.PrivateKeyType =
                                  ParsePrivateKey(PEMBytes(Head(blocks))).type,
                              !.PrivateKeyBytes = PEMBytes(Head(blocks)),
                              !.PrivateKey =
                                  Some(ParsePrivateKey(PEMBytes(Head(blocks))))])
    ELSE IF IsCertBlock(Head(blocks))
    THEN IF ParseCertificate(PEMBytes(Head(blocks))).IsCA
         THEN ParsePEMBlocks(Tail(blocks),
                  [acc EXCEPT !.IssuingCABytes = PEMBytes(Head(blocks)),
                              !.IssuingCA =
                                  Some(ParseCertificate(PEMBytes(Head(blocks))))])
         ELSE ParsePEMBlocks(Tail(blocks),
                  [acc EXCEPT !.CertificateBytes = PEMBytes(Head(blocks)),
                              !.Certificate =
                                  Some(ParseCertificate(PEMBytes(Head(blocks))))])
    ELSE UserError("pem block cannot be decoded to a private key or certificate")

ParsePEMBundle(pemBundle) ==
    IF Len(pemBundle) = 0 THEN UserError("empty pem bundle")
    ELSE ParsePEMBlocks(pemBundle,
                        ParsedCertBundle(UnknownPrivateKey, Nil, Nil, Nil, Nil, Nil, Nil))

\* The self-signed case of pathCASetWrite: a bundle with an issuing CA and no
\* certificate has the issuing CA taken as its certificate
AdoptIssuingCA(parsedBundle) ==
    IF IsNil(parsedBundle.Certificate) /\ ~IsNil(parsedBundle.IssuingCA)
    THEN [parsedBundle EXCEPT !.Certificate = parsedBundle.IssuingCA,
                              !.CertificateBytes = parsedBundle.IssuingCABytes]
    ELSE parsedBundle

\* A comparison that takes any stored key for the certificate's
KeyMatchesAny(parsedBundle, parsedCB) == TRUE

\* The comparison of the correlation step: the stored key's public key is the
\* uploaded certificate's
KeyMatches(parsedBundle, parsedCB) ==
    Public(Deref(parsedCB.PrivateKey)) = Deref(parsedBundle.Certificate).PublicKey

\* A correlation step that fills in the key and its type but not its bytes
AttachParsedKeyNoBytes(parsedBundle, cb, parsedCB) ==
    IF /\ Len(cb.PrivateKey) # 0
       /\ cb.PrivateKeyType # ""
       /\ parsedBundle.PrivateKeyType = UnknownPrivateKey
       /\ Len(parsedBundle.PrivateKeyBytes) = 0
       /\ Public(Deref(parsedCB.PrivateKey)) = Deref(parsedBundle.Certificate).PublicKey
    THEN [parsedBundle EXCEPT !.PrivateKey = parsedCB.PrivateKey,
                              !.PrivateKeyType = parsedCB.PrivateKeyType]
    ELSE parsedBundle

\* The correlation step of pathCASetWrite once the stored bundle is parsed
AttachParsedKey(parsedBundle, cb, parsedCB) ==
    IF /\ Len(cb.PrivateKey) # 0
       /\ cb.PrivateKeyType # ""
       /\ parsedBundle.PrivateKeyType = UnknownPrivateKey
       /\ Len(parsedBundle.PrivateKeyBytes) = 0
       /\ KeyMatches(parsedBundle, parsedCB)
    THEN [parsedBundle EXCEPT !.PrivateKey = parsedCB.PrivateKey,
                              !.PrivateKeyType = parsedCB.PrivateKeyType,
                              !.PrivateKeyBytes = parsedCB.PrivateKeyBytes]
    ELSE parsedBundle

\* pathCASetWrite from its checks on: the private key, its type, the CA flag,
\* then the three writes
SetStore(s, parsedBundle, puts) ==
    IF IsNil(parsedBundle.PrivateKey) \/ Len(parsedBundle.PrivateKeyBytes) = 0
    THEN Refuse(s, "No private key given and no matching key stored")
    ELSE IF parsedBundle.PrivateKeyType # RSAPrivateKey
    THEN Refuse(s, "Currently, only RSA keys are supported for the CA certificate")
    ELSE IF IsNil(parsedBundle.Certificate)
    THEN Outcome(s, Nil,
                 Some([err |-> "panic", msg |-> "nil pointer dereference",
                       val |-> Nil]),
                 Nil, Nil)
    ELSE IF ~Deref(parsedBundle.Certificate).IsCA
    THEN Refuse(s, "The given certificate is not marked for CA use and cannot be used with this backend")
    ELSE Outcome(StoreCA(s, ToCertBundle(parsedBundle), parsedBundle.CertificateBytes,
                         puts),
                 Nil, IF puts < 3 THEN Some(StorageError) ELSE Nil, Nil, Nil)

\* pathCASetWrite after the upload is parsed: the stored bundle is read and
\* its key correlated
SetCorrelate(s, uploaded, puts) ==
    IF IsNil(Get(s, "config/ca_bundle")) THEN SetStore(s, uploaded, puts)
    ELSE SetStore(s, AttachParsedKey(uploaded,
                                     DecodeJSON(Deref(Get(s, "config/ca_bundle"))),
                                     ToParsedCertBundle(
                                         DecodeJSON(Deref(Get(s, "config/ca_bundle"))))),
                  puts)

\* pathCASetWrite after certutil.ParsePEMBundle returned
SetParsed(s, parseRes, puts) ==
    IF parseRes.err = "InternalError"
    THEN Outcome(s, Nil, Some(parseRes), Some(parseRes), Nil)
    ELSE IF parseRes.err # "none"
    THEN Outcome(s, ErrorResponse(parseRes.msg), Nil, Some(parseRes), Nil)
    ELSE SetCorrelate(s, AdoptIssuingCA(Deref(parseRes.val)), puts)

\* pathCASetWrite
pathCASetWrite(s, req, puts) == SetParsed(s, ParsePEMBundle(req.pem_bundle), puts)

\* ------------------------------------------------------------ role handlers

\* What the role handlers leave behind: an Outcome and the handler's local ttl
\* (Nil when the handler returned before computing it)
RoleOutcome(s, resp, ttl) == Outcome(s, resp, Nil, Nil, Nil) @@ [ttl |-> ttl]

\* A migration that copies lease and lease_max and leaves them set
MigratedKeepLease(result) ==
    [result EXCEPT
        !.TTL = IF Len(result.TTL) = 0 /\ Len(result.Lease) # 0
                THEN result.Lease ELSE result.TTL,
        !.MaxTTL = IF Len(result.MaxTTL) = 0 /\ Len(result.LeaseMax) # 0
                   THEN result.LeaseMax ELSE result.MaxTTL]

\* The migration of getRole: lease and lease_max move to ttl and max_ttl
Migrated(result) ==
    [result EXCEPT
        !.TTL = IF Len(result.TTL) = 0 /\ Len(result.Lease) # 0
                THEN result.Lease ELSE result.TTL,
        !.Lease = IF Len(result.TTL) = 0 /\ Len(result.Lease) # 0
                  THEN "" ELSE result.Lease,
        !.MaxTTL = IF Len(result.MaxTTL) = 0 /\ Len(result.LeaseMax) # 0
                   THEN result.LeaseMax ELSE result.MaxTTL,
        !.LeaseMax = IF Len(result.MaxTTL) = 0 /\ Len(result.LeaseMax) # 0
                     THEN "" ELSE result.LeaseMax]

\* getRole: [role, storage], the role Nil when none is stored; a migrated
\* entry is saved back
getRole(s, n) ==
    IF IsNil(Get(s, RoleKey(n))) THEN [role |-> Nil, storage |-> s]
    ELSE IF Migrated(DecodeJSON(Deref(Get(s, RoleKey(n)))))
               # DecodeJSON(Deref(Get(s, RoleKey(n))))
    THEN [role |-> Some(Migrated(DecodeJSON(Deref(Get(s, RoleKey(n)))))),
          storage |-> Put(s, RoleKey(n),
                          EncodeJSON(Migrated(DecodeJSON(Deref(Get(s, RoleKey(n)))))))]
    ELSE [role |-> Some(DecodeJSON(Deref(Get(s, RoleKey(n))))), storage |-> s]

\* pathRoleDelete
pathRoleDelete(s, req) == RoleOutcome([s EXCEPT ![RoleKey(req.name)] = Nil], Nil, Nil)

\* The placeholders pathRoleRead shows for an empty max_ttl and ttl
WithPlaceholders(role) ==
    [role EXCEPT
        !.MaxTTL = IF Len(role.MaxTTL) = 0 THEN "(system default)" ELSE role.MaxTTL,
        !.TTL = IF Len(role.TTL) # 0 THEN role.TTL
                ELSE IF Len(role.MaxTTL) # 0
                THEN "(system default, capped to role max)"
                ELSE "(system default)"]

\* structs.New(role).Map()
RoleMap(role) ==
    [f \in DOMAIN ZeroRole \ {"UseCSRCommonName", "MaxPathLength"} |-> role[f]]

\* pathRoleRead after getRole returned
RoleReadWith(got) ==
    IF IsNil(got.role) THEN RoleOutcome(got.storage, Nil, Nil)
    ELSE RoleOutcome(got.storage,
                     Response(RoleMap(WithPlaceholders(Deref(got.role)))), Nil)

\* pathRoleRead
pathRoleRead(s, req) == RoleReadWith(getRole(s, req.name))

\* An entry that takes AllowSubdomains from allow_any_name and the reverse
RoleEntryOfSwapped(req) ==
    [ZeroRole EXCEPT
        !.MaxTTL = req.max_ttl, !.TTL = req.ttl,
        !.AllowLocalhost = req.allow_localhost,
        !.AllowedBaseDomain = req.allowed_base_domain,
        !.AllowBaseDomain = req.allow_base_domain,
        !.AllowTokenDisplayName = req.allow_token_displayname,
        !.AllowSubdomains = req.allow_any_name,
        !.AllowAnyName = req.allow_subdomains,
        !.EnforceHostnames = req.enforce_hostnames,
        !.AllowIPSANs = req.allow_ip_sans,
        !.ServerFlag = req.server_flag, !.ClientFlag = req.client_flag,
        !.CodeSigningFlag = req.code_signing_flag,
        !.EmailProtectionFlag = req.email_protection_flag,
        !.KeyType = req.key_type, !.KeyBits = req.key_bits]

\* The entry pathRoleCreate builds from the request's fields
RoleEntryOf(req) ==
    [ZeroRole EXCEPT
        !.MaxTTL = req.max_ttl, !.TTL = req.ttl,
        !.AllowLocalhost = req.allow_localhost,
        !.AllowedBaseDomain = req.allowed_base_domain,
        !.AllowBaseDomain = req.allow_base_domain,
        !.AllowTokenDisplayName = req.allow_token_displayname,
        !.AllowSubdomains = req.allow_subdomains,
        !.AllowAnyName = req.allow_any_name,
        !.EnforceHostnames = req.enforce_hostnames,
        !.AllowIPSANs = req.allow_ip_sans,
        !.ServerFlag = req.server_flag, !.ClientFlag = req.client_flag,
        !.CodeSigningFlag = req.code_signing_flag,
        !.EmailProtectionFlag = req.email_protection_flag,
        !.KeyType = req.key_type, !.KeyBits = req.key_bits]

\* A key check that lets every RSA bit length through
KeyBitsErrorLax(entry) ==
    CASE entry.KeyType = "rsa" -> ""
      [] entry.KeyType = "ec" ->
            IF entry.KeyBits \in {224, 256, 384, 521} THEN ""
            ELSE "unsupported bit length for EC key"
      [] OTHER -> "unknown key type"

\* The switch on entry.KeyType and entry.KeyBits: the error message, "" if none
KeyBitsError(entry) ==
    CASE entry.KeyType = "rsa" ->
            IF entry.KeyBits \in {1024, 2048, 4096, 8192} THEN ""
            ELSE "unsupported bit length for RSA key"
      [] entry.KeyType = "ec" ->
            IF entry.KeyBits \in {224, 256, 384, 521} THEN ""
            ELSE "unsupported bit length for EC key"
      [] OTHER -> "unknown key type"

\* A store step that writes the entry before it looks at the key bits
RoleStoreThenCheck(s, name, entry, ttl) ==
    IF KeyBitsError(entry) # ""
    THEN RoleOutcome(Put(s, RoleKey(name), EncodeJSON(entry)),
                     ErrorResponse(KeyBitsError(entry)), Some(ttl))
    ELSE RoleOutcome(Put(s, RoleKey(name), EncodeJSON(entry)), Nil, Some(ttl))

\* pathRoleCreate from the key switch on: the switch, then the write
RoleStore(s, name, entry, ttl) ==
    IF KeyBitsError(entry) # "" THEN RoleOutcome(s, ErrorResponse(KeyBitsError(entry)), Some(ttl))
    ELSE RoleOutcome(Put(s, RoleKey(name), EncodeJSON(entry)), Nil, Some(ttl))

\* A ttl comparison that refuses every ttl above maxTTL
CapOrRefuseStrict(entry, ttl, maxTTL) ==
    IF ttl > maxTTL THEN [refused |-> TRUE, ttl |-> ttl]
    ELSE [refused |-> FALSE, ttl |-> ttl]

\* The comparison of ttl with maxTTL in pathRoleCreate: the system default is
\* capped, a ttl of the request is refused
CapOrRefuse(entry, ttl, maxTTL) ==
    IF ttl > maxTTL
    THEN IF Len(entry.TTL) = 0 THEN [refused |-> FALSE, ttl |-> maxTTL]
         ELSE [refused |-> TRUE, ttl |-> ttl]
    ELSE [refused |-> FALSE, ttl |-> ttl]

\* pathRoleCreate after the comparison of ttl with maxTTL
RoleAfterTTL(s, name, entry, capped) ==
    IF capped.refused
    THEN RoleOutcome(s, ErrorResponse("\"ttl\" value must be less than \"max_ttl\" and/or backend default max lease TTL value"),
                     Some(capped.ttl))
    ELSE RoleStore(s, name, entry, capped.ttl)

\* pathRoleCreate once maxTTL is known: ttl is the system default or the parsed
\* entry.TTL
RoleWithMaxTTL(s, name, entry, maxTTL, defaultLeaseTTL) ==
    IF Len(entry.TTL) # 0 /\ ~ParseDuration(entry.TTL).ok
    THEN RoleOutcome(s, ErrorResponse("Invalid ttl"), Nil)
    ELSE RoleAfterTTL(s, name, entry,
                      CapOrRefuse(entry,
                                  IF Len(entry.TTL) # 0 THEN ParseDuration(entry.TTL).d
                                  ELSE defaultLeaseTTL,
                                  maxTTL))

\* pathRoleCreate once the entry is built: maxTTL is the system max or the
\* parsed entry.MaxTTL
RoleWithEntry(s, name, entry, defaultLeaseTTL, maxSystemTTL) ==
    IF Len(entry.MaxTTL) # 0 /\ ~ParseDuration(entry.MaxTTL).ok
    THEN RoleOutcome(s, ErrorResponse("Invalid ttl"), Nil)
    ELSE IF (IF Len(entry.MaxTTL) = 0 THEN maxSystemTTL
             ELSE ParseDuration(entry.MaxTTL).d) > maxSystemTTL
    THEN RoleOutcome(s, ErrorResponse("Requested max TTL is higher than backend maximum"), Nil)
    ELSE RoleWithMaxTTL(s, name, entry,
                        IF Len(entry.MaxTTL) = 0 THEN maxSystemTTL
                        ELSE ParseDuration(entry.MaxTTL).d,
                        defaultLeaseTTL)

\* pathRoleCreate
pathRoleCreate(s, req, defaultLeaseTTL, maxLeaseTTL) ==
    RoleWithEntry(s, req.name, RoleEntryOf(req), defaultLeaseTTL, maxLeaseTTL)

\* ------------------------------------------------------------------- state

VARIABLES
    storage,          \* the backend's logical.Storage
    defaultLeaseTTL,  \* b.System().DefaultLeaseTTL(), hours
    maxLeaseTTL,      \* b.System().MaxLeaseTTL(), hours
    now,              \* time.Now(), hours
    nextKey,          \* the next key pair the random source yields
    last,             \* the last request: its operation, request and outcome
    internalKeys,     \* key pairs generated with exported = "internal"
    disclosed         \* private keys that appeared in some response

vars == <<storage, defaultLeaseTTL, maxLeaseTTL, now, nextKey, last,
          internalKeys, disclosed>>

\* req.DisplayName of the requests
DisplayName == <<"t", "o", "k">>

\* The private keys a response's data carries
KeysIn(resp) ==
    IF IsNil(resp) \/ "private_key" \notin DOMAIN Deref(resp).Data THEN {}
    ELSE IF Len(Deref(resp).Data.private_key) = 0 THEN {}
    ELSE {ParsePrivateKey(PEMBytes(Deref(resp).Data.private_key)).id}

\* The state after a handler ran: its storage, and the record of the request
Handled(op, req, out) ==
    /\ storage' = out.storage
    /\ last' = [op |-> op, req |-> req, resp |-> out.resp, err |-> out.err,
                raised |-> out.raised]
    /\ nextKey' = IF IsNil(out.key) THEN nextKey ELSE nextKey + 1
    /\ disclosed' = disclosed \cup KeysIn(out.resp)
    /\ internalKeys' = IF ~IsNil(out.key) /\ req.exported = "internal"
                       THEN internalKeys \cup {Deref(out.key).id}
                       ELSE internalKeys
    /\ UNCHANGED <<defaultLeaseTTL, maxLeaseTTL, now>>

\* ------------------------------------------------------------------ inputs

CommonName == <<"c", "a">>

\* pki_address values: this mount, another mount, this mount with a trailing
\* slash, and the malformed ones
ThisMount == <<"http", "://vault", "/v1/", "pki">>

OtherMount == <<"http", "://vault", "/v1/", "int">>

CARequest(exported, address, keyBits, cn, ttl, ipSans) ==
    [exported |-> exported, pki_address |-> address, key_bits |-> keyBits,
     common_name |-> cn, alt_names |-> Nil, ip_sans |-> ipSans, ttl |-> ttl]

RootRequests ==
    {CARequest(e, ThisMount, 2048, CommonName, t, Nil) :
        e \in {"exported", "internal"}, t \in {Nil, Some("1h"), Some("720h")}}
    \cup {CARequest("bogus", ThisMount, 2048, CommonName, Nil, Nil)}
    \cup {CARequest("internal", a, 2048, CommonName, Nil, Nil) :
            a \in {<<>>, <<"ftp", "://vault", "/v1/", "pki">>, <<"http", "://vault">>,
                   OtherMount}}
    \cup {CARequest("exported", ThisMount, 512, CommonName, Nil, Nil),
          CARequest("exported", ThisMount, 2048, <<>>, Nil, Nil),
          CARequest("exported", ThisMount, 2048, CommonName, Some("bogus"), Nil),
          CARequest("exported", ThisMount, 2048, CommonName, Nil,
                    Some(<<"1", ".", "2", ".", "3", ".", "4">>))}

\* A CSR submitted for signing, for the key pair 103
CSRString(valid) ==
    PEMEncode("CERTIFICATE REQUEST",
              <<"CSRDER", CertificateRequest(<<"s", "u", "b">>, <<>>, <<>>, <<>>,
                                             Public(Key(103, RSAPrivateKey)), valid)>>)

SignRequest(address, csr, cn, ttl) ==
    [pki_address |-> address, csr |-> csr, common_name |-> cn,
     alt_names |-> Nil, ip_sans |-> Nil, ttl |-> ttl, exported |-> ""]

SignRequests ==
    {SignRequest(OtherMount, CSRString(TRUE), CommonName, t) :
        t \in {Nil, Some("1h")}}
    \cup {SignRequest(a, CSRString(TRUE), CommonName, Nil) :
            a \in {<<>>, <<"ftp", "://vault", "/v1/", "pki">>, <<"http", "://vault">>,
                   ThisMount, ThisMount \o <<"/">>}}
    \cup {SignRequest(OtherMount, c, CommonName, Nil) :
            c \in {<<>>, <<"garbage">>, PEMEncode("CERTIFICATE REQUEST", <<"garbage">>),
                   CSRString(FALSE)}}
    \cup {SignRequest(OtherMount, CSRString(TRUE), <<>>, Nil)}

\* Key pairs made outside the backend
ExternalRSAKey == Key(101, RSAPrivateKey)

ExternalECKey == Key(102, ECPrivateKey)

\* A certificate issued outside the backend for public key `pub`
ExternalCert(pub, isCA, maxPathLen) ==
    [Template(9, <<"e", "x", "t">>, 0, 200, DefaultKeyUsage, <<>>, isCA,
              SubjKeyID(pub), <<>>, <<>>, <<>>, maxPathLen, maxPathLen = 0,
              "SHA256WithRSA")
     EXCEPT !.PublicKey = pub, !.Issuer = <<"r", "o", "o", "t">>,
            !.AuthorityKeyId = <<"SKI", 100>>,
            !.SignedBy = [pub |-> 100, type |-> RSAPrivateKey]]

\* The certificates uploads may carry: a CA certificate for each key pair the
\* backend may have generated, and certificates for the external key pairs
UploadCerts ==
    {ExternalCert(Public(Key(k, RSAPrivateKey)), TRUE, -1) : k \in 1..MaxKeys}
    \cup {ExternalCert(Public(ExternalRSAKey), TRUE, -1),
          ExternalCert(Public(ExternalRSAKey), TRUE, 0),
          ExternalCert(Public(ExternalRSAKey), FALSE, -1),
          ExternalCert(Public(ExternalECKey), TRUE, -1)}

CertBlock(cert) == PEMEncode("CERTIFICATE", <<"CERTDER", cert>>)

KeyBlock(key) ==
    PEMEncode(IF key.type = ECPrivateKey THEN "EC PRIVATE KEY" ELSE "RSA PRIVATE KEY",
              MarshalPrivateKey(key))

\* The private keys a client can upload: the external ones and those the
\* backend disclosed to it
UploadKeys == {ExternalRSAKey, ExternalECKey}
              \cup {Key(k, RSAPrivateKey) : k \in disclosed}

SetRequest(blocks) == [pem_bundle |-> blocks, exported |-> ""]

SetRequests ==
    {SetRequest(<<CertBlock(c)>>) : c \in UploadCerts}
    \cup {SetRequest(<<KeyBlock(k), CertBlock(c)>>) : k \in UploadKeys, c \in UploadCerts}
    \cup {SetRequest(<<KeyBlock(k)>>) : k \in UploadKeys}
    \cup {SetRequest(<<KeyBlock(ExternalRSAKey), KeyBlock(ExternalECKey)>>),
          SetRequest(<<PEMEncode("GARBAGE", <<>>)>>),
          SetRequest(<<>>)}

\* ----------------------------------------------------------------- actions

NoRequest == [op |-> "none", req |-> Nil, resp |-> Nil, err |-> Nil, raised |-> Nil]

Init ==
    /\ storage = [k \in StorageKeys |-> Nil]
    /\ defaultLeaseTTL = 168
    /\ maxLeaseTTL = 336
    /\ now = 0
    /\ nextKey = 1
    /\ last = NoRequest
    /\ internalKeys = {}
    /\ disclosed = {}

\* The random source fails (rngOk = FALSE) on one request of each kind
GenerateRoot ==
    /\ nextKey <= MaxKeys
    /\ \E in \in {<<req, TRUE>> : req \in RootRequests}
                  \cup {<<CARequest("exported", ThisMount, 2048, CommonName, Nil, Nil),
                          FALSE>>},
          serial \in Serials :
          Handled("ca.generateRoot", in[1],
                  pathCAGenerateRoot(storage, in[1], DisplayName, defaultLeaseTTL,
                                     maxLeaseTTL, now, serial, nextKey, in[2], 3))

GenerateIntermediate ==
    /\ nextKey <= MaxKeys
    /\ \E in \in {<<CARequest(e, <<>>, b, CommonName, Nil, Nil), TRUE>> :
                      e \in {"exported", "internal"}, b \in {0, 2048}}
                  \cup {<<CARequest("bogus", <<>>, 2048, CommonName, Nil, Nil), TRUE>>,
                        <<CARequest("exported", <<>>, 512, CommonName, Nil, Nil), TRUE>>,
                        <<CARequest("exported", <<>>, 2048, <<>>, Nil, Nil), TRUE>>,
                        <<CARequest("exported", <<>>, 2048, CommonName, Nil, Nil),
                          FALSE>>} :
          Handled("ca.generateIntermediate", in[1],
                  pathCAGenerateIntermediate(storage, in[1], DisplayName,
                                             defaultLeaseTTL, maxLeaseTTL, now,
                                             nextKey, in[2], 1))

Sign ==
    \E in \in {<<req, TRUE>> : req \in SignRequests}
               \cup {<<SignRequest(OtherMount, CSRString(TRUE), CommonName, Nil),
                       FALSE>>},
       serial \in Serials :
        Handled("ca.sign", in[1],
                pathCASignWrite(storage, in[1], DisplayName, defaultLeaseTTL,
                                maxLeaseTTL, now, serial, in[2], 1))

SetCA ==
    \E req \in SetRequests :
        Handled("ca.set", req, pathCASetWrite(storage, req, 3))

Next == GenerateRoot \/ GenerateIntermediate \/ Sign \/ SetCA

Spec == Init /\ [][Next]_vars

\* ------------------------------------------------- failing storage writes

\* The CA paths on a storage whose writes may fail: of the writes a handler
\* makes, the first `puts` succeed and the next one returns an error.  The
\* record of the request keeps `puts`, and `pending`: a ca.generateIntermediate
\* succeeded and no ca.set or ca.generateRoot has succeeded since.
HandledFaults(op, req, out, puts) ==
    /\ storage' = out.storage
    /\ last' = [op |-> op, req |-> req, resp |-> out.resp, err |-> out.err,
                raised |-> out.raised, puts |-> puts,
                pending |->
                    IF ~IsNil(out.err)
                          \/ (~IsNil(out.resp) /\ Deref(out.resp).IsError)
                    THEN last.pending
                    ELSE IF op = "ca.generateIntermediate" THEN TRUE
                    ELSE IF op \in {"ca.set", "ca.generateRoot"} THEN FALSE
                    ELSE last.pending]
    /\ nextKey' = IF IsNil(out.key) THEN nextKey ELSE nextKey + 1
    /\ disclosed' = disclosed \cup KeysIn(out.resp)
    /\ internalKeys' = IF ~IsNil(out.key) /\ req.exported = "internal"
                       THEN internalKeys \cup {Deref(out.key).id}
                       ELSE internalKeys
    /\ UNCHANGED <<defaultLeaseTTL, maxLeaseTTL, now>>

InitFaults ==
    /\ storage = [k \in StorageKeys |-> Nil]
    /\ defaultLeaseTTL = 168
    /\ maxLeaseTTL = 336
    /\ now = 0
    /\ nextKey = 1
    /\ last = [op |-> "none", req |-> Nil, resp |-> Nil, err |-> Nil,
               raised |-> Nil, puts |-> 0, pending |-> FALSE]
    /\ internalKeys = {}
    /\ disclosed = {}

\* One request of each path: the requests differ in what the storage holds
\* when they arrive and in the write that fails
RootFaults ==
    /\ nextKey <= MaxKeys
    /\ \E puts \in 0..3 :
          HandledFaults("ca.generateRoot",
                        CARequest("internal", ThisMount, 2048, CommonName, Nil, Nil),
                        pathCAGenerateRoot(
                            storage,
                            CARequest("internal", ThisMount, 2048, CommonName, Nil, Nil),
                            DisplayName, defaultLeaseTTL, maxLeaseTTL, now, 1,
                            nextKey, TRUE, puts),
                        puts)

IntermediateFaults ==
    /\ nextKey <= MaxKeys
    /\ \E puts \in 0..1 :
          HandledFaults("ca.generateIntermediate",
                        CARequest("exported", <<>>, 2048, CommonName, Nil, Nil),
                        pathCAGenerateIntermediate(
                            storage,
                            CARequest("exported", <<>>, 2048, CommonName, Nil, Nil),
                            DisplayName, defaultLeaseTTL, maxLeaseTTL, now,
                            nextKey, TRUE, puts),
                        puts)

SignFaults ==
    \E req \in {SignRequest(OtherMount, CSRString(TRUE), CommonName, Nil),
                 SignRequest(OtherMount, CSRString(FALSE), CommonName, Nil)},
       puts \in 0..1 :
        HandledFaults("ca.sign", req,
                      pathCASignWrite(storage, req, DisplayName, defaultLeaseTTL,
                                      maxLeaseTTL, now, 1, TRUE, puts),
                      puts)

\* Uploads of a CA certificate for a key pair the backend generated, alone or
\* with its key when the key was disclosed, and of an external CA certificate
\* with its key or with a key that is not its own
SetFaults ==
    \E req \in {SetRequest(<<CertBlock(ExternalCert(Public(Key(k, RSAPrivateKey)),
                                                    TRUE, -1))>>) : k \in 1..MaxKeys}
                \cup {SetRequest(<<KeyBlock(Key(k, RSAPrivateKey)),
                                   CertBlock(ExternalCert(Public(Key(k, RSAPrivateKey)),
                                                          TRUE, -1))>>) :
                         k \in disclosed}
                \cup {SetRequest(<<KeyBlock(ExternalRSAKey),
                                   CertBlock(ExternalCert(Public(k), TRUE, -1))>>) :
                         k \in {ExternalRSAKey, ExternalECKey}},
       puts \in 0..3 :
        HandledFaults("ca.set", req, pathCASetWrite(storage, req, puts), puts)

NextFaults == RootFaults \/ IntermediateFaults \/ SignFaults \/ SetFaults

SpecFaults == InitFaults /\ [][NextFaults]_vars

\* ------------------------------------------------------- role lifecycle

\* A role.write request: the fields of the path's schema, those not given at
\* their defaults
RoleRequest(name, ttl, maxTTL, keyType, keyBits) ==
    [name |-> name, ttl |-> ttl, max_ttl |-> maxTTL,
     allow_localhost |-> TRUE, allowed_base_domain |-> <<>>,
     allow_base_domain |-> FALSE, allow_token_displayname |-> FALSE,
     allow_subdomains |-> FALSE, allow_any_name |-> FALSE,
     enforce_hostnames |-> FALSE, allow_ip_sans |-> TRUE,
     server_flag |-> TRUE, client_flag |-> TRUE, code_signing_flag |-> FALSE,
     email_protection_flag |-> FALSE, key_type |-> keyType, key_bits |-> keyBits]

RoleWriteRequests ==
    {RoleRequest("web", t, m, "rsa", 2048) :
        t \in {"", "1h", "336h", "bogus"}, m \in {"", "168h", "720h", "bogus"}}
    \cup {RoleRequest("web", "", "", k[1], k[2]) : k \in {<<"rsa", 2048>>, <<"rsa", 8192>>, <<"rsa", 512>>, <<"ec", 256>>,
                   <<"ec", 2048>>, <<"dsa", 1024>>, <<"", 0>>}}
    \cup {RoleRequest("web", "336h", "168h", "rsa", 512)}
    \cup {[RoleRequest("web", "1h", "", "ec", 384) EXCEPT
              !.allow_localhost = FALSE, !.allowed_base_domain = <<"e", ".", "c">>,
              !.allow_base_domain = TRUE, !.allow_token_displayname = TRUE,
              !.allow_subdomains = TRUE, !.allow_any_name = TRUE,
              !.enforce_hostnames = TRUE, !.allow_ip_sans = FALSE,
              !.server_flag = FALSE, !.client_flag = FALSE,
              !.code_signing_flag = TRUE, !.email_protection_flag = TRUE],
          [RoleRequest("web", "", "168h", "rsa", 4096) EXCEPT
              !.allow_subdomains = TRUE, !.code_signing_flag = TRUE]}

\* The role an earlier version saved: lease and lease_max, no ttl nor max_ttl
LegacyRole ==
    [ZeroRole EXCEPT !.Lease = "1h", !.LeaseMax = "168h", !.AllowLocalhost = TRUE,
                     !.KeyType = "rsa", !.KeyBits = 2048]

\* The pairs of system default and max lease TTL, in hours, a mount can be
\* tuned to
SystemTTLPairs == {p \in {1, 168, 336, 720} \X {1, 168, 336, 720} : p[1] <= p[2]}

InitRole ==
    /\ storage = [k \in StorageKeys |->
                    IF k = RoleKey("old") THEN Some(EncodeJSON(LegacyRole)) ELSE Nil]
    /\ \E p \in SystemTTLPairs : defaultLeaseTTL = p[1] /\ maxLeaseTTL = p[2]
    /\ now = 0
    /\ nextKey = 1
    /\ last = NoRequest
    /\ internalKeys = {}
    /\ disclosed = {}

\* The state after a role handler ran
HandledRole(op, req, out) ==
    /\ storage' = out.storage
    /\ last' = [op |-> op, req |-> req, resp |-> out.resp, err |-> out.err,
                raised |-> out.raised, ttl |-> out.ttl]
    /\ UNCHANGED <<defaultLeaseTTL, maxLeaseTTL, now, nextKey, internalKeys, disclosed>>

RoleWrite ==
    \E req \in RoleWriteRequests :
        HandledRole("role.write", req,
                    pathRoleCreate(storage, req, defaultLeaseTTL, maxLeaseTTL))

RoleRead ==
    \E n \in RoleNames :
        HandledRole("role.read", [name |-> n], pathRoleRead(storage, [name |-> n]))

RoleDelete ==
    \E n \in RoleNames :
        HandledRole("role.delete", [name |-> n], pathRoleDelete(storage, [name |-> n]))

NextRole == RoleWrite \/ RoleRead \/ RoleDelete

SpecRole == InitRole /\ [][NextRole]_vars

\* ------------------------------------- a role read beside a role change

\* The role.write and role.delete requests that run beside the read
MaxRaceOps == 2

\* Two requests on role/old at once. One is a role.read: `reader` is where it
\* stands in getRole ("idle" before s.Get, "put" between the migration in
\* memory and s.Put, "done" after it returned), `local` its migrated copy,
\* `resp` its response. The others are role.write and role.delete requests,
\* each one step: `ops` counts them and `completed` is the entry the last of
\* them left at role/old (Nil after a delete, <<>> while none has completed).
InitRace ==
    /\ \E legacy \in {LegacyRole, [LegacyRole EXCEPT !.LeaseMax = ""],
                       Migrated(LegacyRole)} :
          storage = [k \in StorageKeys |->
                        IF k = RoleKey("old") THEN Some(EncodeJSON(legacy)) ELSE Nil]
    /\ \E p \in SystemTTLPairs : defaultLeaseTTL = p[1] /\ maxLeaseTTL = p[2]
    /\ now = 0
    /\ nextKey = 1
    /\ last = [op |-> "none", reader |-> "idle", local |-> Nil, resp |-> Nil,
               completed |-> <<>>, ops |-> 0]
    /\ internalKeys = {}
    /\ disclosed = {}

\* getRole up to its s.Put: the entry is read and decoded and the migration
\* is made in memory; without an entry, or with nothing to migrate,
\* pathRoleRead returns here
ReadGet ==
    /\ last.reader = "idle"
    /\ LET entry == Get(storage, RoleKey("old"))
           result == Migrated(DecodeJSON(Deref(entry)))
       IN  last' = IF IsNil(entry)
                   THEN [last EXCEPT !.op = "role.read", !.reader = "done"]
                   ELSE IF result # DecodeJSON(Deref(entry))
                   THEN [last EXCEPT !.op = "role.read", !.reader = "put",
                                     !.local = Some(result)]
                   ELSE [last EXCEPT
                            !.op = "role.read", !.reader = "done",
                            !.resp = RoleReadWith([role |-> Some(result),
                                                   storage |-> storage]).resp]
    /\ UNCHANGED <<storage, defaultLeaseTTL, maxLeaseTTL, now, nextKey,
                   internalKeys, disclosed>>

\* getRole's s.Put of the migrated entry, and the rest of pathRoleRead
ReadPut ==
    /\ last.reader = "put"
    /\ storage' = Put(storage, RoleKey("old"), EncodeJSON(Deref(last.local)))
    /\ last' = [last EXCEPT
                   !.op = "role.read", !.reader = "done",
                   !.resp = RoleReadWith([role |-> last.local,
                                          storage |-> storage']).resp]
    /\ UNCHANGED <<defaultLeaseTTL, maxLeaseTTL, now, nextKey, internalKeys,
                   disclosed>>

\* A role.write of the same name, from another request
RaceWrite ==
    /\ last.ops < MaxRaceOps
    /\ \E ttl \in {"", "1h", "bogus"} :
          LET out == pathRoleCreate(storage, RoleRequest("old", ttl, "", "rsa", 2048),
                                    defaultLeaseTTL, maxLeaseTTL)
          IN  /\ storage' = out.storage
              /\ last' = [last EXCEPT
                             !.op = "role.write", !.ops = @ + 1,
                             !.completed = IF IsNil(out.resp)
                                           THEN <<Get(out.storage, RoleKey("old"))>>
                                           ELSE @]
    /\ UNCHANGED <<defaultLeaseTTL, maxLeaseTTL, now, nextKey, internalKeys,
                   disclosed>>

\* A role.delete of the same name, from another request
RaceDelete ==
    /\ last.ops < MaxRaceOps
    /\ storage' = pathRoleDelete(storage, [name |-> "old"]).storage
    /\ last' = [last EXCEPT !.op = "role.delete", !.ops = @ + 1,
                            !.completed = <<Nil>>]
    /\ UNCHANGED <<defaultLeaseTTL, maxLeaseTTL, now, nextKey, internalKeys,
                   disclosed>>

NextRace == ReadGet \/ ReadPut \/ RaceWrite \/ RaceDelete

SpecRace == InitRace /\ [][NextRace]_vars

\* ------------------------------------------------ role.write beside ca.set

\* The two handlers that validate what they are given before they store it
NextFrame == RoleWrite \/ SetCA

SpecFrame == Init /\ [][NextFrame]_vars

\* ------------------------------------------------- issuing under a role

Localhost == <<"l", "o", "c", "a", "l", "h", "o", "s", "t">>

\* The signing context: a CA certificate that expires at notAfter, and its key
Signer(notAfter) ==
    ParsedCertBundle(
        RSAPrivateKey, MarshalPrivateKey(ExternalRSAKey), Some(ExternalRSAKey),
        Nil, Nil,
        <<"CERTDER", [ExternalCert(Public(ExternalRSAKey), TRUE, -1)
                         EXCEPT !.NotAfter = notAfter]>>,
        Some([ExternalCert(Public(ExternalRSAKey), TRUE, -1)
                 EXCEPT !.NotAfter = notAfter]))
    @@ [URLs |-> EmptyURLs]

InitBundle ==
    /\ storage = [k \in StorageKeys |-> Nil]
    /\ defaultLeaseTTL = 720
    /\ maxLeaseTTL = 720
    /\ now \in {0, 100}
    /\ nextKey = 1
    /\ last = NoRequest
    /\ internalKeys = {}
    /\ disclosed = {}

\* role.write of one of the roles written before issuing: every ttl and
\* max_ttl, an RSA key
IssueWriteRole ==
    \E req \in {RoleRequest("web", t, m, "rsa", 2048) :
                    t \in {"", "1h", "336h"}, m \in {"", "168h", "720h"}} :
        HandledRole("role.write", req,
                    pathRoleCreate(storage, req, defaultLeaseTTL, maxLeaseTTL))

\* The mount is tuned: b.System() reports another default and max lease TTL
Tune ==
    \E p \in SystemTTLPairs :
        /\ <<defaultLeaseTTL, maxLeaseTTL>> # p
        /\ defaultLeaseTTL' = p[1]
        /\ maxLeaseTTL' = p[2]
        /\ last' = [op |-> "tune", req |-> Nil, resp |-> Nil, err |-> Nil,
                    raised |-> Nil]
        /\ UNCHANGED <<storage, now, nextKey, internalKeys, disclosed>>

\* generateCert under the stored role, with a signing context
Issue ==
    /\ ~IsNil(Get(storage, RoleKey("web")))
    /\ \E ttl \in {Nil, Some("1h"), Some("168h"), Some("336h"), Some("720h"),
                   Some("bogus")},
          notAfter \in {200, 1000} :
          /\ last' = [op |-> "issue",
                      req |-> [common_name |-> Localhost, alt_names |-> Nil,
                               ip_sans |-> Nil, ttl |-> ttl],
                      role |-> Deref(getRole(storage, "web").role),
                      signer |-> Signer(notAfter),
                      res |-> generateCert(
                                  Deref(getRole(storage, "web").role),
                                  Some(Signer(notAfter)), FALSE,
                                  [common_name |-> Localhost, alt_names |-> Nil,
                                   ip_sans |-> Nil, ttl |-> ttl],
                                  DisplayName, defaultLeaseTTL, maxLeaseTTL, now,
                                  1, 1, TRUE)]
          /\ storage' = getRole(storage, "web").storage
    /\ UNCHANGED <<defaultLeaseTTL, maxLeaseTTL, now, nextKey, internalKeys, disclosed>>

NextBundle == IssueWriteRole \/ Tune \/ Issue

SpecBundle == InitBundle /\ [][NextBundle]_vars

\* ---------------------------------------------- the creation bundle builder

ExampleCom == <<"e", "x", "a", "m", "p", "l", "e", ".", "c", "o", "m">>

\* The common names requested: localhost, the token display name and a
\* subdomain of it, the base domain, a subdomain, the wildcard, a name with an
\* empty label, two e-mail addresses and an unrelated name
RequestedNames ==
    {Localhost, DisplayName, <<"x", ".">> \o DisplayName, ExampleCom,
     <<"f", "o", "o", ".">> \o ExampleCom, <<"*", ".">> \o ExampleCom,
     <<"f", "o", "o", ".", ".">> \o ExampleCom, <<"a", "@">> \o ExampleCom,
     <<"a", "@">> \o Localhost, <<"o", "t", "h", "e", "r">>}

\* The roles names are validated under: every combination of the Allow* flags,
\* enforce_hostnames, email_protection_flag and an allowed base domain or
\* none; the other fields are the defaults of the role schema
BuilderRoles ==
    {[ZeroRole EXCEPT
         !.AllowLocalhost = f[1], !.AllowBaseDomain = f[2],
         !.AllowTokenDisplayName = f[3], !.AllowSubdomains = f[4],
         !.AllowAnyName = f[5], !.EnforceHostnames = f[6],
         !.EmailProtectionFlag = f[7], !.AllowedBaseDomain = d,
         !.AllowIPSANs = TRUE, !.ServerFlag = TRUE, !.ClientFlag = TRUE,
         !.KeyType = "rsa", !.KeyBits = 2048] :
        f \in [1..7 -> BOOLEAN], d \in {<<>>, ExampleCom}}

InitBuilder ==
    /\ storage = [k \in StorageKeys |-> Nil]
    /\ defaultLeaseTTL = 168
    /\ maxLeaseTTL = 336
    /\ now = 0
    /\ nextKey = 1
    /\ last = NoRequest
    /\ internalKeys = {}
    /\ disclosed = {}

\* generateCreationBundle, once, for a self-signed certificate with one
\* requested name: `bad` is what validateNames returns for the name, `res` the builder's
\* result
ValidateName ==
    /\ last = NoRequest
    /\ \E name \in RequestedNames, role \in BuilderRoles :
          last' = [op |-> "validate", name |-> name, role |-> role,
                   bad |-> validateNames(<<name>>, role, DisplayName),
                   res |-> generateCreationBundle(
                               role, Nil, Nil,
                               [common_name |-> name, alt_names |-> Nil,
                                ip_sans |-> Nil, ttl |-> Nil],
                               DisplayName, defaultLeaseTTL, maxLeaseTTL, now)]
    /\ UNCHANGED <<storage, defaultLeaseTTL, maxLeaseTTL, now, nextKey,
                   internalKeys, disclosed>>

\* A signing context whose CA certificate has the given MaxPathLen
PathSigner(maxPathLen) ==
    ParsedCertBundle(
        RSAPrivateKey, MarshalPrivateKey(ExternalRSAKey), Some(ExternalRSAKey),
        Nil, Nil,
        <<"CERTDER", ExternalCert(Public(ExternalRSAKey), TRUE, maxPathLen)>>,
        Some(ExternalCert(Public(ExternalRSAKey), TRUE, maxPathLen)))
    @@ [URLs |-> EmptyURLs]

\* generateCreationBundle, once, with or without a signing context, under a
\* role with or without a MaxPathLength of its own, for a name the role allows
\* (localhost) or refuses
BuildSigned ==
    /\ last = NoRequest
    /\ \E signingBundle \in {Nil} \cup {Some(PathSigner(m)) : m \in {-1, 0, 1, 2}},
          maxPathLength \in {Nil, Some(0), Some(1), Some(5)},
          name \in {Localhost, <<"o", "t", "h", "e", "r">>} :
          last' = [op |-> "build", name |-> name,
                   role |-> [CARole("", "rsa", 2048) EXCEPT
                                !.AllowAnyName = FALSE,
                                !.MaxPathLength = maxPathLength],
                   signingBundle |-> signingBundle,
                   res |-> generateCreationBundle(
                               [CARole("", "rsa", 2048) EXCEPT
                                   !.AllowAnyName = FALSE,
                                   !.MaxPathLength = maxPathLength],
                               signingBundle, Nil,
                               [common_name |-> name, alt_names |-> Nil,
                                ip_sans |-> Nil, ttl |-> Nil],
                               DisplayName, defaultLeaseTTL, maxLeaseTTL, now)]
    /\ UNCHANGED <<storage, defaultLeaseTTL, maxLeaseTTL, now, nextKey,
                   internalKeys, disclosed>>

\* generateCert as pathCAGenerateRoot calls it (no signing context, isCA), once,
\* under a role with every combination of the usage flags, each key type with
\* a supported and an unsupported size, and with or without a MaxPathLength
BuildRoot ==
    /\ last = NoRequest
    /\ \E f \in [1..4 -> BOOLEAN],
          k \in {<<"rsa", 2048>>, <<"rsa", 4096>>, <<"ec", 256>>, <<"ec", 384>>,
                 <<"ec", 100>>, <<"dsa", 1024>>},
          maxPathLength \in {Nil, Some(0), Some(1)} :
          last' = [op |-> "root",
                   role |-> [CARole("", k[1], k[2]) EXCEPT
                                !.ServerFlag = f[1], !.ClientFlag = f[2],
                                !.CodeSigningFlag = f[3],
                                !.EmailProtectionFlag = f[4],
                                !.MaxPathLength = maxPathLength],
                   res |-> generateCert(
                               [CARole("", k[1], k[2]) EXCEPT
                                   !.ServerFlag = f[1], !.ClientFlag = f[2],
                                   !.CodeSigningFlag = f[3],
                                   !.EmailProtectionFlag = f[4],
                                   !.MaxPathLength = maxPathLength],
                               Nil, TRUE,
                               [common_name |-> CommonName, alt_names |-> Nil,
                                ip_sans |-> Nil, ttl |-> Nil],
                               DisplayName, defaultLeaseTTL, maxLeaseTTL, now,
                               1, nextKey, TRUE)]
    /\ UNCHANGED <<storage, defaultLeaseTTL, maxLeaseTTL, now, nextKey,
                   internalKeys, disclosed>>

\* generateCert and signCert, once, in each signing mode: self-signed (no
\* signing context), signed by a CA from the template, signed by a CA from a
\* CSR; with each value of isCA and useCSRValues and under a role with or
\* without a MaxPathLength.  `bundle` is what generateCreationBundle returns
\* for the call.
BuildIssued ==
    /\ last = NoRequest
    /\ \E mode \in {"self", "template", "csr"}, isCA \in BOOLEAN,
          useCSRValues \in BOOLEAN, maxPathLength \in {Nil, Some(0), Some(1)},
          f \in [1..2 -> BOOLEAN] :
          LET role == [CARole("", "rsa", 2048) EXCEPT
                          !.ServerFlag = f[1], !.CodeSigningFlag = f[2],
                          !.MaxPathLength = maxPathLength]
              signingBundle == IF mode = "self" THEN Nil ELSE Some(PathSigner(-1))
              req == SignRequest(OtherMount, CSRString(TRUE), CommonName, Nil)
              csr == IF mode = "csr" THEN Some(PEMBytes(req.csr)[2]) ELSE Nil
          IN  /\ mode # "csr" => ~useCSRValues
              /\ last' = [op |-> "cert", mode |-> mode, isCA |-> isCA,
                          useCSRValues |-> useCSRValues, role |-> role,
                          bundle |-> generateCreationBundle(
                                        role, signingBundle, csr, BundleData(req),
                                        DisplayName, defaultLeaseTTL, maxLeaseTTL, now),
                          res |-> IF mode = "csr"
                                  THEN signCert(role, signingBundle, isCA,
                                                useCSRValues, req, DisplayName,
                                                defaultLeaseTTL, maxLeaseTTL, now,
                                                1, TRUE)
                                  ELSE generateCert(role, signingBundle, isCA,
                                                    BundleData(req), DisplayName,
                                                    defaultLeaseTTL, maxLeaseTTL,
                                                    now, 1, nextKey, TRUE)]
    /\ UNCHANGED <<storage, defaultLeaseTTL, maxLeaseTTL, now, nextKey,
                   internalKeys, disclosed>>

\* generateCreationBundle, once, for a request with alt_names: a DNS name, an
\* e-mail address, or both, beside a common name that is a DNS name or an
\* e-mail address, under a role that allows localhost and, by its flags,
\* e-mail names or any name
BuildAltNames ==
    /\ last = NoRequest
    /\ \E cn \in {Localhost, <<"a", "@">> \o Localhost},
          alt \in {Localhost, <<"e", "@">> \o ExampleCom,
                   <<"e", "@">> \o Localhost,
                   Localhost \o <<",", "e", "@">> \o ExampleCom,
                   <<"e", "@">> \o Localhost \o <<",">> \o ExampleCom},
          f \in [1..2 -> BOOLEAN] :
          last' = [op |-> "alt", name |-> cn, alt |-> alt,
                   role |-> [CARole("", "rsa", 2048) EXCEPT
                                !.AllowAnyName = f[1],
                                !.EmailProtectionFlag = f[2]],
                   res |-> generateCreationBundle(
                               [CARole("", "rsa", 2048) EXCEPT
                                   !.AllowAnyName = f[1],
                                   !.EmailProtectionFlag = f[2]],
                               Nil, Nil,
                               [common_name |-> cn, alt_names |-> Some(alt),
                                ip_sans |-> Nil, ttl |-> Nil],
                               DisplayName, defaultLeaseTTL, maxLeaseTTL, now)]
    /\ UNCHANGED <<storage, defaultLeaseTTL, maxLeaseTTL, now, nextKey,
                   internalKeys, disclosed>>

\* validateNames, once, for a name at the edges of its clauses (the bare
\* wildcard, a name with an empty first label, a name ending in a dot, the
\* wildcard of the base domain, names with two "@") and a request whose
\* display name is a token's or empty
ValidateEdgeName ==
    /\ last = NoRequest
    /\ \E name \in {<<"*", ".">>, <<".">> \o ExampleCom, <<"f", "o", "o", ".">>,
                    <<"*", ".">> \o ExampleCom,
                    <<"a", "@", "b", "@">> \o Localhost,
                    <<"a", "@", "b", "@", "f", "o", "o", ".", ".">> \o ExampleCom},
          role \in BuilderRoles, displayName \in {DisplayName, <<>>} :
          last' = [op |-> "edge", name |-> name, role |-> role,
                   displayName |-> displayName,
                   bad |-> validateNames(<<name>>, role, displayName)]
    /\ UNCHANGED <<storage, defaultLeaseTTL, maxLeaseTTL, now, nextKey,
                   internalKeys, disclosed>>

NextBuilder ==
    \/ ValidateName
    \/ BuildSigned
    \/ BuildRoot
    \/ BuildIssued
    \/ BuildAltNames
    \/ ValidateEdgeName

SpecBuilder == InitBuilder /\ [][NextBuilder]_vars

\* ------------------------------------------------- properties: CA lifecycle

\* The last request returned neither an error response nor an error
Succeeded ==
    /\ last.op # "none"
    /\ IsNil(last.err)
    /\ IsNil(last.resp) \/ ~Deref(last.resp).IsError

\* The bundle stored at config/ca_bundle in storage s, parsed
BundleAt(s) == ToParsedCertBundle(DecodeJSON(Deref(Get(s, "config/ca_bundle"))))

\* The private key blocks and the certificate blocks of an uploaded bundle
KeyBlocksOf(req) == {i \in 1..Len(req.pem_bundle) : IsKeyBlock(req.pem_bundle[i])}

CertBlocksOf(req) == {i \in 1..Len(req.pem_bundle) : IsCertBlock(req.pem_bundle[i])}

\* An upload of one certificate and no private key
CertOnlyUpload(req) ==
    /\ Len(req.pem_bundle) = 1
    /\ IsCertBlock(req.pem_bundle[1])

\* The certificate of a one-certificate upload
UploadedCert(req) == ParseCertificate(PEMBytes(req.pem_bundle[1]))

\* Storage s holds a private key whose public key is `pub`
StoresKeyFor(s, pub) ==
    /\ ~IsNil(Get(s, "config/ca_bundle"))
    /\ ~IsNil(BundleAt(s).PrivateKey)
    /\ Public(Deref(BundleAt(s).PrivateKey)) = pub

\* C1: whenever ca.set succeeds, the bundle stored at config/ca_bundle holds a
\* certificate marked IsCA and an RSA private key whose public key is the
\* certificate's, whether the key was uploaded or re-attached from storage.
C1_SetStoresMatchingKey ==
    (last.op = "ca.set" /\ Succeeded) =>
        /\ ~IsNil(Get(storage, "config/ca_bundle"))
        /\ ~IsNil(BundleAt(storage).Certificate)
        /\ Deref(BundleAt(storage).Certificate).IsCA
        /\ BundleAt(storage).PrivateKeyType = RSAPrivateKey
        /\ ~IsNil(BundleAt(storage).PrivateKey)
        /\ Public(Deref(BundleAt(storage).PrivateKey))
               = Deref(BundleAt(storage).Certificate).PublicKey

\* A ca.set that succeeded with an uploaded key that is not the certificate's
C1_MismatchStored ==
    /\ last.op = "ca.set"
    /\ Succeeded
    /\ KeyBlocksOf(last.req) # {}
    /\ Public(Deref(BundleAt(storage).PrivateKey))
           # Deref(BundleAt(storage).Certificate).PublicKey

\* The key pair generated by the last ca.generateIntermediate is the one stored
\* and no certificate is stored with it
KeyOnlyStored(s) ==
    /\ ~IsNil(Get(s, "config/ca_bundle"))
    /\ IsNil(BundleAt(s).Certificate)
    /\ ~IsNil(BundleAt(s).PrivateKey)

\* A ca.sign request the handler's own checks let through
ValidSign(req) ==
    /\ req.pki_address = OtherMount
    /\ req.csr = CSRString(TRUE)
    /\ req.common_name = CommonName

\* C2: intermediate round trip.  When config/ca_bundle holds only a generated
\* key, a ca.set uploading a CA certificate for that key and no private key
\* succeeds and stores the certificate with the generated key; and whenever a
\* certificate and key are stored, a ca.sign loads the signing context and the
\* certificate it issues is issued by the stored certificate and signed with
\* the stored key; a valid request is refused only when the stored certificate
\* has a max path length of zero or expires before the requested lifetime.
C2_RoundTrip ==
    [][/\ ( /\ KeyOnlyStored(storage)
            /\ last'.op = "ca.set"
            /\ CertOnlyUpload(last'.req)
            /\ UploadedCert(last'.req).IsCA
            /\ UploadedCert(last'.req).PublicKey
                   = Public(Deref(BundleAt(storage).PrivateKey)) )
          => /\ IsNil(last'.resp) /\ IsNil(last'.err)
             /\ BundleAt(storage').Certificate = Some(UploadedCert(last'.req))
             /\ BundleAt(storage').PrivateKey = BundleAt(storage).PrivateKey
             /\ BundleAt(storage').PrivateKeyBytes = BundleAt(storage).PrivateKeyBytes
       /\ ( /\ last'.op = "ca.sign"
            /\ ~IsNil(Get(storage, "config/ca_bundle"))
            /\ ~IsNil(BundleAt(storage).Certificate)
            /\ ~IsNil(BundleAt(storage).PrivateKey)
            /\ ValidSign(last'.req) )
          => /\ IsNil(last'.err)
                \/ Deref(last'.err).msg = "error getting random serial number"
             /\ (~IsNil(last'.resp) /\ ~Deref(last'.resp).IsError) =>
                  LET issued == ParseCertificate(PEMBytes(Deref(last'.resp).Data.certificate))
                      ca == Deref(BundleAt(storage).Certificate)
                  IN  /\ issued.Issuer = ca.Subject
                      /\ issued.AuthorityKeyId = ca.SubjectKeyId
                      /\ issued.SignedBy = Public(Deref(BundleAt(storage).PrivateKey))
                      /\ Deref(last'.resp).Data.issuing_ca
                             = PEMEncode("CERTIFICATE", BundleAt(storage).CertificateBytes)
             /\ (~IsNil(last'.resp) /\ Deref(last'.resp).IsError) =>
                  \/ /\ Deref(BundleAt(storage).Certificate).MaxPathLen = 0
                     /\ Deref(last'.resp).Data.error
                            = "signing CA has a max path length of zero"
                  \/ /\ Deref(BundleAt(storage).Certificate).NotAfter
                            < now + ResolveTTL(ZeroRole, BundleData(last'.req),
                                               defaultLeaseTTL, maxLeaseTTL).val[1]
                     /\ Deref(last'.resp).Data.error
                            = "cannot satisfy request, as TTL is beyond the expiration of the CA certificate"
      ]_vars

\* A certificate was issued by an intermediate whose key the backend generated
\* and never disclosed, and whose certificate was uploaded
C2_Witness ==
    /\ last.op = "ca.sign"
    /\ Succeeded
    /\ ~IsNil(Get(storage, "config/ca_bundle"))
    /\ ~IsNil(BundleAt(storage).PrivateKey)
    /\ Deref(BundleAt(storage).PrivateKey).id \in internalKeys
    /\ Deref(BundleAt(storage).Certificate).Subject = <<"e", "x", "t">>
    /\ ParseCertificate(PEMBytes(Deref(last.resp).Data.certificate)).Issuer
           = <<"e", "x", "t">>

\* C3: a ca.set whose bundle carries a certificate and no private key attaches
\* the stored key only when config/ca_bundle holds a key whose public key is the
\* certificate's; otherwise it answers 'No private key given and no matching
\* key stored' and leaves the storage as it was.
C3_AttachOnlyMatching ==
    [][(last'.op = "ca.set" /\ CertOnlyUpload(last'.req)) =>
          IF StoresKeyFor(storage, UploadedCert(last'.req).PublicKey)
          THEN /\ last'.resp # ErrorResponse("No private key given and no matching key stored")
               /\ (IsNil(last'.resp) /\ IsNil(last'.err)) =>
                     BundleAt(storage').PrivateKey = BundleAt(storage).PrivateKey
          ELSE /\ last'.resp = ErrorResponse("No private key given and no matching key stored")
               /\ IsNil(last'.err)
               /\ storage' = storage
      ]_vars

\* A certificate-only upload was refused because the stored key is another's
C3_Witness ==
    /\ last.op = "ca.set"
    /\ CertOnlyUpload(last.req)
    /\ last.resp = ErrorResponse("No private key given and no matching key stored")
    /\ ~IsNil(Get(storage, "config/ca_bundle"))
    /\ ~IsNil(BundleAt(storage).PrivateKey)
    /\ Public(Deref(BundleAt(storage).PrivateKey)) # UploadedCert(last.req).PublicKey

\* C4: right after a successful ca.generateRoot or ca.set, config/ca_bundle
\* holds the new bundle (the certificate just generated or uploaded), `ca`
\* holds the DER bytes of that bundle's certificate and `crl` the empty blob.
C4_MirrorAndEmptyCRL ==
    (last.op \in {"ca.generateRoot", "ca.set"} /\ Succeeded) =>
        /\ ~IsNil(Get(storage, "config/ca_bundle"))
        /\ last.op = "ca.generateRoot" =>
              DecodeJSON(Deref(Get(storage, "config/ca_bundle"))).Certificate
                  = Deref(last.resp).Data.certificate
        /\ last.op = "ca.set" =>
              \E i \in CertBlocksOf(last.req) :
                  DecodeJSON(Deref(Get(storage, "config/ca_bundle"))).Certificate
                      = last.req.pem_bundle[i]
        /\ Get(storage, "ca")
               = Some(PEMBytes(DecodeJSON(Deref(Get(storage, "config/ca_bundle"))).Certificate))
        /\ Deref(Get(storage, "ca"))[1] = "CERTDER"
        /\ Get(storage, "crl") = Some(<<>>)

\* A ca.set replaced the bundle a ca.generateRoot had stored
C4_Witness ==
    /\ last.op = "ca.set"
    /\ Succeeded
    /\ nextKey > 1
    /\ Deref(BundleAt(storage).Certificate).Subject = <<"e", "x", "t">>
    /\ Get(storage, "ca") = Some(BundleAt(storage).CertificateBytes)
    /\ Get(storage, "crl") = Some(<<>>)

\* C5: the response of ca.generateRoot and ca.generateIntermediate carries
\* private_key and private_key_type exactly when exported is "exported"; the
\* responses of ca.sign and ca.set carry no private key; and a key generated
\* with "internal" has appeared in no response.
C5_KeyOnlyWhenExported ==
    /\ (last.op \in {"ca.generateRoot", "ca.generateIntermediate"} /\ Succeeded) =>
          /\ "private_key" \in DOMAIN Deref(last.resp).Data
                <=> last.req.exported = "exported"
          /\ "private_key_type" \in DOMAIN Deref(last.resp).Data
                <=> last.req.exported = "exported"
          /\ last.req.exported = "exported" =>
                /\ Deref(last.resp).Data.private_key
                       = DecodeJSON(Deref(Get(storage, "config/ca_bundle"))).PrivateKey
                /\ Deref(last.resp).Data.private_key_type = "rsa"
    /\ last.op \in {"ca.sign", "ca.set"} => KeysIn(last.resp) = {}
    /\ internalKeys \cap disclosed = {}

\* A key generated with "internal" is stored and signs, undisclosed
C5_Witness ==
    /\ last.op = "ca.sign"
    /\ Succeeded
    /\ internalKeys # {}
    /\ Deref(BundleAt(storage).PrivateKey).id \in internalKeys
    /\ Deref(BundleAt(storage).PrivateKey).id \notin disclosed

\* C6: in ca.generateRoot, ca.generateIntermediate, ca.sign and ca.set every
\* UserError is answered with an error response and no error, and every
\* InternalError is returned as the error.
C6_ErrorChannel ==
    ~IsNil(last.raised) =>
        /\ Deref(last.raised).err = "UserError" =>
              /\ IsNil(last.err)
              /\ ~IsNil(last.resp)
              /\ Deref(last.resp).IsError
        /\ Deref(last.raised).err = "InternalError" =>
              /\ ~IsNil(last.err)
              /\ IsNil(last.resp)

\* ca.sign returned fetchCAInfo's UserError as the error
C6_UserErrorAsError ==
    /\ last.op = "ca.sign"
    /\ ~IsNil(last.raised)
    /\ Deref(last.raised).err = "UserError"
    /\ Deref(last.raised).msg = "backend must be configured with a CA certificate/key"
    /\ ~IsNil(last.err)
    /\ IsNil(last.resp)

\* ------------------------------------------------------- properties: roles

\* The role stored under role/<n> in storage s
RoleAt(s, n) == DecodeJSON(Deref(Get(s, RoleKey(n))))

\* A key type with one of its bit lengths
ValidKey(keyType, keyBits) ==
    \/ keyType = "rsa" /\ keyBits \in {1024, 2048, 4096, 8192}
    \/ keyType = "ec" /\ keyBits \in {224, 256, 384, 521}

\* C9: every stored role has KeyType rsa with KeyBits in {1024, 2048, 4096,
\* 8192} or KeyType ec with KeyBits in {224, 256, 384, 521}; a role.write with
\* another pair is answered with an error response and stores nothing.
C9_StoredKeyBitsValid ==
    /\ [](\A n \in RoleNames :
             ~IsNil(Get(storage, RoleKey(n))) =>
                 ValidKey(RoleAt(storage, n).KeyType, RoleAt(storage, n).KeyBits))
    /\ [][(last'.op = "role.write"
             /\ ~ValidKey(last'.req.key_type, last'.req.key_bits)) =>
            /\ ~IsNil(last'.resp)
            /\ Deref(last'.resp).IsError
            /\ storage' = storage
         ]_vars

\* A write with a bad key pair was refused while a role written earlier stays
C9_Witness ==
    /\ last.op = "role.write"
    /\ last.req.key_type = "rsa"
    /\ last.req.key_bits = 512
    /\ last.resp = ErrorResponse("unsupported bit length for RSA key")
    /\ ~IsNil(Get(storage, RoleKey("web")))
    /\ RoleAt(storage, "web").KeyType = "ec"

\* The maxTTL of a role.write request: its max_ttl, the system max when empty
RequestMaxTTL(req) ==
    IF req.max_ttl = "" THEN maxLeaseTTL ELSE ParseDuration(req.max_ttl).d

\* C10: role.write refuses a max_ttl above the system max TTL; refuses a ttl
\* of the request above max_ttl (above the system max when max_ttl is empty);
\* and when ttl is empty and the system default exceeds max_ttl it caps its
\* ttl to max_ttl and stores the role as requested.
C10_RoleTTLChecks ==
    [][last'.op = "role.write" =>
        /\ (ParseDuration(last'.req.max_ttl).ok
              /\ ParseDuration(last'.req.max_ttl).d > maxLeaseTTL) =>
             /\ last'.resp = ErrorResponse("Requested max TTL is higher than backend maximum")
             /\ storage' = storage
        /\ (/\ last'.req.max_ttl = "" \/ ParseDuration(last'.req.max_ttl).ok
            /\ RequestMaxTTL(last'.req) <= maxLeaseTTL
            /\ ParseDuration(last'.req.ttl).ok
            /\ ParseDuration(last'.req.ttl).d > RequestMaxTTL(last'.req)) =>
             /\ last'.resp = ErrorResponse("\"ttl\" value must be less than \"max_ttl\" and/or backend default max lease TTL value")
             /\ storage' = storage
        /\ (/\ last'.req.max_ttl = "" \/ ParseDuration(last'.req.max_ttl).ok
            /\ RequestMaxTTL(last'.req) <= maxLeaseTTL
            /\ last'.req.ttl = ""
            /\ defaultLeaseTTL > RequestMaxTTL(last'.req)
            /\ ValidKey(last'.req.key_type, last'.req.key_bits)) =>
             /\ IsNil(last'.resp)
             /\ IsNil(last'.err)
             /\ last'.ttl = Some(RequestMaxTTL(last'.req))
             /\ Get(storage', RoleKey(last'.req.name))
                    = Some(EncodeJSON(RoleEntryOf(last'.req)))
      ]_vars

\* A role with max_ttl below the system default and no ttl was stored
C10_Witness ==
    /\ last.op = "role.write"
    /\ last.req.ttl = ""
    /\ last.req.max_ttl = "168h"
    /\ defaultLeaseTTL > 168
    /\ IsNil(last.resp)
    /\ last.ttl = Some(168)
    /\ RoleAt(storage, "web").MaxTTL = "168h"
    /\ RoleAt(storage, "web").TTL = ""

\* The non-TTL fields of a role.read answer and the request fields they are
\* written from
NonTTLFields ==
    {<<"AllowLocalhost", "allow_localhost">>,
     <<"AllowedBaseDomain", "allowed_base_domain">>,
     <<"AllowBaseDomain", "allow_base_domain">>,
     <<"AllowTokenDisplayName", "allow_token_displayname">>,
     <<"AllowSubdomains", "allow_subdomains">>,
     <<"AllowAnyName", "allow_any_name">>,
     <<"EnforceHostnames", "enforce_hostnames">>,
     <<"AllowIPSANs", "allow_ip_sans">>,
     <<"ServerFlag", "server_flag">>, <<"ClientFlag", "client_flag">>,
     <<"CodeSigningFlag", "code_signing_flag">>,
     <<"EmailProtectionFlag", "email_protection_flag">>,
     <<"KeyType", "key_type">>, <<"KeyBits", "key_bits">>}

\* C11: a role.read that follows an accepted role.write of the same name
\* answers every non-TTL field with the written value; ttl and max_ttl are the
\* written values, an empty one replaced by its display placeholder.
C11_ReadReturnsWritten ==
    [][(/\ last.op = "role.write"
        /\ IsNil(last.resp)
        /\ IsNil(last.err)
        /\ last'.op = "role.read"
        /\ last'.req.name = last.req.name) =>
           /\ ~IsNil(last'.resp)
           /\ ~Deref(last'.resp).IsError
           /\ \A f \in NonTTLFields :
                  Deref(last'.resp).Data[f[1]] = last.req[f[2]]
           /\ Deref(last'.resp).Data.MaxTTL
                  = (IF last.req.max_ttl = "" THEN "(system default)"
                     ELSE last.req.max_ttl)
           /\ Deref(last'.resp).Data.TTL
                  = (IF last.req.ttl # "" THEN last.req.ttl
                     ELSE IF last.req.max_ttl = "" THEN "(system default)"
                     ELSE "(system default, capped to role max)")
      ]_vars

\* A role.read answered a role whose flags all differ from the defaults
C11_Witness ==
    /\ last.op = "role.read"
    /\ last.req.name = "web"
    /\ ~IsNil(last.resp)
    /\ Deref(last.resp).Data.AllowSubdomains
    /\ ~Deref(last.resp).Data.AllowAnyName
    /\ Deref(last.resp).Data.CodeSigningFlag
    /\ Deref(last.resp).Data.KeyBits = 4096
    /\ Deref(last.resp).Data.TTL = "(system default, capped to role max)"
    /\ Deref(last.resp).Data.MaxTTL = "168h"

\* A stored role is a legacy one: lease and lease_max set, ttl and max_ttl not
IsLegacy(s, n) ==
    /\ ~IsNil(Get(s, RoleKey(n)))
    /\ RoleAt(s, n).Lease # "" /\ RoleAt(s, n).LeaseMax # ""
    /\ RoleAt(s, n).TTL = "" /\ RoleAt(s, n).MaxTTL = ""

\* C12: one role.read of a stored legacy role leaves the stored entry, and
\* answers, with ttl and max_ttl equal to the former lease and lease_max and
\* with lease and lease_max empty, every other field and every other key
\* untouched; a role.read that follows a role.read of the same name writes
\* nothing and answers the same role.
C12_MigrationIdempotent ==
    [][last'.op = "role.read" =>
        /\ IsLegacy(storage, last'.req.name) =>
              /\ RoleAt(storage', last'.req.name)
                     = [RoleAt(storage, last'.req.name) EXCEPT
                           !.TTL = RoleAt(storage, last'.req.name).Lease,
                           !.MaxTTL = RoleAt(storage, last'.req.name).LeaseMax,
                           !.Lease = "", !.LeaseMax = ""]
              /\ \A k \in StorageKeys \ {RoleKey(last'.req.name)} :
                     storage'[k] = storage[k]
              /\ last'.resp = Response(RoleMap(RoleAt(storage', last'.req.name)))
              /\ ~IsLegacy(storage', last'.req.name)
        /\ (last.op = "role.read" /\ last.req.name = last'.req.name) =>
              /\ storage' = storage
              /\ last'.resp = last.resp
      ]_vars

\* The legacy role was read: the stored entry is migrated and is the answer
C12_Witness ==
    /\ last.op = "role.read"
    /\ last.req.name = "old"
    /\ RoleAt(storage, "old").TTL = "1h"
    /\ RoleAt(storage, "old").MaxTTL = "168h"
    /\ RoleAt(storage, "old").Lease = ""
    /\ RoleAt(storage, "old").LeaseMax = ""
    /\ last.resp = Response(RoleMap(RoleAt(storage, "old")))

\* ------------------------------------------- properties: creation bundle

\* The certificate of the last issue
Issued == Deref(Deref(last.res.val).Certificate)

\* The lifetime of the certificate of the last issue
Lifetime == Issued.NotAfter - Issued.NotBefore

\* maxTTL of the last issue: role.MaxTTL, the system max when it is empty
IssueMaxTTL ==
    IF last.role.MaxTTL = "" THEN maxLeaseTTL ELSE ParseDuration(last.role.MaxTTL).d

\* The ttl string of the last issue and the ttl it resolves to
IssueTTLField == TTLField(last.role, last.req)

IssueTTL ==
    IF IssueTTLField = "" THEN defaultLeaseTTL ELSE ParseDuration(IssueTTLField).d

\* C7: the lifetime of every issued certificate is at most role.MaxTTL (when
\* set) and at most the system max TTL at issuance, and its NotAfter is not
\* later than the signing certificate's.
C7_LifetimeBounded ==
    (last.op = "issue" /\ last.res.err = "none") =>
        /\ last.role.MaxTTL # "" => Lifetime <= ParseDuration(last.role.MaxTTL).d
        /\ Lifetime <= maxLeaseTTL
        /\ Issued.NotAfter <= Deref(last.signer.Certificate).NotAfter

\* A certificate was issued for longer than the system max TTL
C7_BeyondSystemMax ==
    /\ last.op = "issue"
    /\ last.res.err = "none"
    /\ Lifetime > maxLeaseTTL
    /\ Lifetime <= ParseDuration(last.role.MaxTTL).d

\* The three requests of the scenario: role MaxTTL 7d and no TTL, system max 30d
ScenarioOutcome ==
    /\ last.req.ttl = Nil => last.res.err = "none" /\ Lifetime = 168
    /\ last.req.ttl = Some("336h") => last.res.err = "UserError"
    /\ last.req.ttl = Some("1h") => last.res.err = "none" /\ Lifetime = 1

AllowFlags ==
    {"AllowLocalhost", "AllowBaseDomain", "AllowTokenDisplayName",
     "AllowSubdomains", "AllowAnyName"}

\* C13: a name validateNames accepts under a role is accepted under the role
\* with any one of AllowLocalhost, AllowBaseDomain, AllowTokenDisplayName,
\* AllowSubdomains, AllowAnyName changed from false to true.
C13_ValidatorMonotone ==
    (last.op = "validate" /\ last.bad = <<>>) =>
        \A f \in AllowFlags :
            ~last.role[f] =>
                validateNames(<<last.name>>, [last.role EXCEPT ![f] = TRUE],
                              DisplayName) = <<>>

\* A name rejected with AllowSubdomains false is accepted for its base domain
\* with every other Allow* flag false
C13_Witness ==
    /\ last.op = "validate"
    /\ last.bad = <<>>
    /\ last.name = <<"f", "o", "o", ".">> \o ExampleCom
    /\ last.role.AllowSubdomains
    /\ \A f \in AllowFlags \ {"AllowSubdomains"} : ~last.role[f]
    /\ validateNames(<<last.name>>, [last.role EXCEPT !.AllowSubdomains = FALSE],
                     DisplayName) = last.name

\* The role of the validator scenario: subdomains of example.com, hostnames
\* enforced, the base domain itself not allowed
SubdomainRole ==
    [ZeroRole EXCEPT
        !.AllowedBaseDomain = ExampleCom, !.AllowSubdomains = TRUE,
        !.AllowBaseDomain = FALSE, !.EnforceHostnames = TRUE,
        !.AllowLocalhost = TRUE, !.AllowIPSANs = TRUE, !.ServerFlag = TRUE,
        !.ClientFlag = TRUE, !.KeyType = "rsa", !.KeyBits = 2048]

\* C14: under the role with AllowedBaseDomain example.com, AllowSubdomains,
\* no AllowBaseDomain and EnforceHostnames, foo.example.com and *.example.com
\* are admitted, example.com and foo..example.com are returned as the bad
\* name, and the builder fails with the user error "name %s not allowed by
\* this role" for that name.
C14_SubdomainScenario ==
    (last.op = "validate" /\ last.role = SubdomainRole) =>
        /\ last.name \in {<<"f", "o", "o", ".">> \o ExampleCom,
                          <<"*", ".">> \o ExampleCom} =>
              /\ last.bad = <<>>
              /\ last.res.err = "none"
              /\ Deref(last.res.val).DNSNames = <<last.name>>
        /\ last.name \in {ExampleCom, <<"f", "o", "o", ".", ".">> \o ExampleCom} =>
              /\ last.bad = last.name
              /\ last.res = [UserError("name %s not allowed by this role")
                                EXCEPT !.val = Some(last.name)]

\* The wildcard of the base domain was admitted under the scenario's role
C14_Witness ==
    /\ last.op = "validate"
    /\ last.role = SubdomainRole
    /\ last.name = <<"*", ".">> \o ExampleCom
    /\ last.res.err = "none"

\* ---------------------------------------------- properties: the path length

\* MaxPathLen of the signer of the last build
SignerMaxPathLen == Deref(Deref(last.signingBundle).Certificate).MaxPathLen

\* C15: with a signing context, a signer with MaxPathLen 0 makes the builder
\* fail, with "signing CA has a max path length of zero" when the request
\* passes the earlier steps; otherwise the role's MaxPathLength is used as
\* given, and without one the bundle's MaxPathLength is -1 for an
\* unconstrained signer and the signer's MaxPathLen - 1 otherwise, below the
\* signer's.  Without a signing context it is -1 unless the role gives one.
C15_PathLength ==
    last.op = "build" =>
        /\ (~IsNil(last.signingBundle) /\ SignerMaxPathLen = 0) =>
              /\ last.res.err = "UserError"
              /\ last.name = Localhost =>
                    last.res.msg = "signing CA has a max path length of zero"
        /\ (~IsNil(last.signingBundle) /\ SignerMaxPathLen # 0
               /\ last.name = Localhost) =>
              /\ last.res.err = "none"
              /\ ~IsNil(last.role.MaxPathLength) =>
                    Deref(last.res.val).MaxPathLength = Deref(last.role.MaxPathLength)
              /\ (IsNil(last.role.MaxPathLength) /\ SignerMaxPathLen < 0) =>
                    Deref(last.res.val).MaxPathLength = -1
              /\ (IsNil(last.role.MaxPathLength) /\ SignerMaxPathLen > 0) =>
                    /\ Deref(last.res.val).MaxPathLength = SignerMaxPathLen - 1
                    /\ Deref(last.res.val).MaxPathLength < SignerMaxPathLen
        /\ (IsNil(last.signingBundle) /\ last.name = Localhost) =>
              /\ last.res.err = "none"
              /\ Deref(last.res.val).MaxPathLength
                     = (IF IsNil(last.role.MaxPathLength) THEN -1
                        ELSE Deref(last.role.MaxPathLength))

\* A bundle built under a signer with MaxPathLen 2 and no override has 1
C15_Witness ==
    /\ last.op = "build"
    /\ ~IsNil(last.signingBundle)
    /\ SignerMaxPathLen = 2
    /\ IsNil(last.role.MaxPathLength)
    /\ last.res.err = "none"
    /\ Deref(last.res.val).MaxPathLength = 1

\* ------------------------------------------- properties: issued certificates

\* The last request was a ca.sign that returned a certificate
SignSucceeded ==
    /\ last.op = "ca.sign"
    /\ Succeeded
    /\ ~IsNil(last.resp)

\* C16: the certificate a successful ca.sign returns is stored, as the same
\* DER bytes, under certs/<serial> with <serial> the serial_number of the
\* response: no successful ca.sign answers with a certificate that storage
\* lacks.
C16_SignedCertStored ==
    SignSucceeded =>
        Get(storage, "certs/" \o Deref(last.resp).Data.serial_number)
            = Some(PEMBytes(Deref(last.resp).Data.certificate))

\* A ca.sign returned a certificate, parsed from the bytes stored under its
\* serial number
C16_Witness ==
    /\ SignSucceeded
    /\ Len(Deref(last.resp).Data.certificate) > 0
    /\ ~IsNil(Get(storage, CertKey(1)))
    /\ ParseCertificate(Deref(Get(storage, CertKey(1)))).Subject = CommonName

\* ------------------------------------------------ properties: generated roots

\* The certificate of the root the last build made
BuiltRoot == Deref(Deref(last.res.val).Certificate)

\* C17: every self-signed root the generate-root path makes has IsCA set, a
\* KeyUsage with CertSign and CRLSign and an ExtKeyUsage with OCSPSigning,
\* whatever the usage flags of the role and whatever the key type.
C17_RootIsCA ==
    (last.op = "root" /\ last.res.err = "none") =>
        /\ BuiltRoot.IsCA
        /\ {"CertSign", "CRLSign"} \subseteq BuiltRoot.KeyUsage
        /\ \E i \in 1..Len(BuiltRoot.ExtKeyUsage) :
               BuiltRoot.ExtKeyUsage[i] = "OCSPSigning"

\* An EC root made under a role with only the code signing flag: OCSPSigning
\* follows CodeSigning in its ExtKeyUsage
C17_Witness ==
    /\ last.op = "root"
    /\ last.res.err = "none"
    /\ last.role.KeyType = "ec"
    /\ BuiltRoot.ExtKeyUsage = <<"CodeSigning", "OCSPSigning">>
    /\ BuiltRoot.IsCA
    /\ BuiltRoot.Issuer = BuiltRoot.Subject

\* ------------------------------------------ properties: failing storage writes

\* The last request ran into a failing storage write
WriteFailed(r) == r.err = Some(StorageError)

\* Storage s holds a bundle with a certificate and the private key of the
\* certificate's public key
CompleteBundle(s) ==
    /\ ~IsNil(Get(s, "config/ca_bundle"))
    /\ ~IsNil(BundleAt(s).Certificate)
    /\ ~IsNil(BundleAt(s).PrivateKey)
    /\ Public(Deref(BundleAt(s).PrivateKey)) = Deref(BundleAt(s).Certificate).PublicKey

\* The bundle of storage s is the one request r brought: the uploaded
\* certificate of a ca.set, the root made for key pair keyId of a
\* ca.generateRoot
NewBundle(s, r, keyId) ==
    /\ ~IsNil(Get(s, "config/ca_bundle"))
    /\ ~IsNil(BundleAt(s).Certificate)
    /\ IF r.op = "ca.set"
       THEN \E i \in CertBlocksOf(r.req) :
               BundleAt(s).CertificateBytes = PEMBytes(r.req.pem_bundle[i])
       ELSE /\ Deref(BundleAt(s).Certificate).Subject = r.req.common_name
            /\ Deref(BundleAt(s).Certificate).PublicKey
                   = Public(Key(keyId, RSAPrivateKey))

\* The storage after request r is made again, every write succeeding
Rerun(s, r, keyId) ==
    IF r.op = "ca.set" THEN pathCASetWrite(s, r.req, 3).storage
    ELSE pathCAGenerateRoot(s, r.req, DisplayName, defaultLeaseTTL, maxLeaseTTL,
                            now, 1, keyId, TRUE, 3).storage

\* `ca` and `crl` of storage s agree with its config/ca_bundle
MirrorsAgree(s) ==
    /\ Get(s, "ca") = Some(BundleAt(s).CertificateBytes)
    /\ Get(s, "crl") = Some(<<>>)

\* C18: ca.generateRoot and ca.set write config/ca_bundle, then ca, then crl;
\* when a storage error stops them after one or two of these writes,
\* config/ca_bundle holds the complete new bundle (the certificate and the
\* private key that matches it), and making the same request again brings ca
\* and crl into agreement with config/ca_bundle.
C18_PartialWriteRecoverable ==
    [][(last'.op \in {"ca.generateRoot", "ca.set"} /\ WriteFailed(last')) =>
          /\ last'.puts = 0 => storage' = storage
          /\ last'.puts >= 1 =>
                /\ NewBundle(storage', last', nextKey)
                /\ CompleteBundle(storage')
                /\ MirrorsAgree(Rerun(storage', last', nextKey'))
                /\ \A k \in StorageKeys \ {"config/ca_bundle", "ca"} :
                       storage'[k] = storage[k]
          /\ last'.puts = 1 => Get(storage', "ca") = Get(storage, "ca")
          /\ last'.puts = 2 =>
                Get(storage', "ca") = Some(BundleAt(storage').CertificateBytes)
      ]_vars

\* A ca.set stopped by a storage error after it wrote config/ca_bundle: the
\* uploaded key stored there is not the key of the uploaded certificate
C18_PartialMismatchStored ==
    /\ last.op = "ca.set"
    /\ WriteFailed(last)
    /\ last.puts >= 1
    /\ KeyBlocksOf(last.req) # {}
    /\ ~CompleteBundle(storage)
    /\ Public(Deref(BundleAt(storage).PrivateKey))
           # Deref(BundleAt(storage).Certificate).PublicKey

\* Request record r is that of a request answered without an error
Successful(r) ==
    /\ IsNil(r.err)
    /\ IsNil(r.resp) \/ ~Deref(r.resp).IsError

\* Storage s gives no signing context: config/ca_bundle is missing, or lacks
\* a certificate, or lacks a private key
NoSigningContext(s) ==
    \/ IsNil(Get(s, "config/ca_bundle"))
    \/ IsNil(BundleAt(s).Certificate)
    \/ IsNil(BundleAt(s).PrivateKey)

\* The step is a ca.sign that failed: it returned no certificate and stored
\* none
SignStepFailed ==
    /\ ~Successful(last')
    /\ IsNil(last'.resp) \/ "certificate" \notin DOMAIN Deref(last'.resp).Data
    /\ storage' = storage

Signs(s, req) ==
    Successful(pathCASignWrite(s, req, DisplayName, defaultLeaseTTL, maxLeaseTTL,
                               now, 1, TRUE, 1))

\* C20 as stated: when the storage write of the issued certificate fails after
\* ca.sign signed it, the certificate is not persisted (no write is made: no
\* certs/<serial> entry is added, the CA bundle and its mirrors are
\* unchanged) and the client still receives the certificate.
C20_ClientKeepsUnstoredCert ==
    [][(last'.op = "ca.sign" /\ last'.puts = 0 /\ Signs(storage, last'.req)) =>
          /\ storage' = storage
          /\ ~IsNil(last'.resp)
          /\ "certificate" \in DOMAIN Deref(last'.resp).Data
      ]_vars

\* C20, amended: when the storage write of the issued certificate fails after
\* ca.sign signed it, the certificate is not persisted (no write is made: no
\* certs/<serial> entry is added, the CA bundle and its mirrors are
\* unchanged) and the client does not receive it: ca.sign returns no
\* response and the error "Unable to store certificate locally".
C20_UnstoredCertIsLost ==
    [][(last'.op = "ca.sign" /\ last'.puts = 0 /\ Signs(storage, last'.req)) =>
          /\ storage' = storage
          /\ IsNil(last'.resp)
          /\ ~IsNil(last'.err)
          /\ Deref(last'.err).msg = "Unable to store certificate locally"
      ]_vars

\* A ca.sign whose storage write failed on a backend with a complete CA
\* bundle: there is no certs/ entry and no response
C20_Witness ==
    /\ last.op = "ca.sign"
    /\ last.puts = 0
    /\ CompleteBundle(storage)
    /\ ~IsNil(last.err)
    /\ Deref(last.err).msg = "Unable to store certificate locally"
    /\ IsNil(last.resp)
    /\ IsNil(Get(storage, CertKey(1)))

\* --------------------------------------- properties: issued certificates

\* The certificate the last generateCert or signCert made
IssuedCert == Deref(Deref(last.res.val).Certificate)

\* C21: in every signing mode (self-signed, signed by a CA from the template,
\* signed by a CA from a CSR) the issued certificate has Basic Constraints
\* with IsCA equal to the creation bundle's IsCA; when IsCA is set its
\* KeyUsage holds CertSign and CRLSign on top of DigitalSignature,
\* KeyEncipherment and KeyAgreement and its ExtKeyUsage holds OCSPSigning; and
\* when IsCA is set and MaxPathLength is 0 the explicit zero path length is
\* emitted.
C21_IssuedFollowsBundle ==
    (last.op = "cert" /\ last.res.err = "none") =>
        /\ IssuedCert.BasicConstraintsValid
        /\ IssuedCert.IsCA = last.isCA
        /\ last.isCA =>
              /\ DefaultKeyUsage \cup {"CertSign", "CRLSign"}
                     \subseteq IssuedCert.KeyUsage
              /\ \E i \in 1..Len(IssuedCert.ExtKeyUsage) :
                     IssuedCert.ExtKeyUsage[i] = "OCSPSigning"
        /\ (last.isCA /\ Deref(last.bundle.val).MaxPathLength = 0) =>
              /\ IssuedCert.MaxPathLen = 0
              /\ IssuedCert.MaxPathLenZero

\* generateCert with a signing context and isCA made a certificate that is
\* not a CA and cannot sign certificates
C21_LeafForCABundle ==
    /\ last.op = "cert"
    /\ last.mode = "template"
    /\ last.isCA
    /\ last.res.err = "none"
    /\ ~IssuedCert.IsCA
    /\ "CertSign" \notin IssuedCert.KeyUsage

\* ------------------------------------------------ properties: alt_names

\* The names of the last request: the common name, then the alt_names entries
NamesAsked == <<last.name>> \o Split(last.alt, ",")

\* The elements of a sequence
Elems(seq) == {seq[i] : i \in 1..Len(seq)}

\* C22: in the creation-bundle builder the common name and each
\* comma-separated alt_names entry is placed, as its own value, in
\* EmailAddresses if it contains "@" and in DNSNames otherwise; so each
\* alt_names entry with "@" is in the bundle's EmailAddresses and is the value
\* the name validator checked.
C22_AltNamesSorted ==
    (last.op = "alt" /\ last.res.err = "none") =>
        \A i \in 1..Len(NamesAsked) :
            IF Contains(NamesAsked[i], "@")
            THEN /\ NamesAsked[i] \in Elems(Deref(last.res.val).EmailAddresses)
                 /\ validateNames(<<NamesAsked[i]>>, last.role, DisplayName) = <<>>
            ELSE /\ NamesAsked[i] \in Elems(Deref(last.res.val).DNSNames)
                 /\ validateNames(<<NamesAsked[i]>>, last.role, DisplayName) = <<>>

\* A bundle built for common name localhost and alt_names e@example.com
\* under a role that allows neither e-mail names nor any name: its
\* EmailAddresses hold localhost and not the address
C22_CommonNameAsEmail ==
    /\ last.op = "alt"
    /\ last.res.err = "none"
    /\ last.name = Localhost
    /\ last.alt = <<"e", "@">> \o ExampleCom
    /\ ~last.role.AllowAnyName
    /\ ~last.role.EmailProtectionFlag
    /\ Deref(last.res.val).EmailAddresses = <<Localhost>>

\* ------------------------------------------ properties: the name validator

\* The validator was run on one name
Validated == last.op \in {"validate", "edge"}

\* The text to the right of the last "@" of a name, the whole name without "@"
RECURSIVE DomainPart(_)
DomainPart(name) ==
    IF ~Contains(name, "@") THEN name
    ELSE DomainPart(Tail(name))

\* The domain part of a name without a leading "*."
Sanitized(name) ==
    IF Len(DomainPart(name)) >= 2 /\ SubSeq(DomainPart(name), 1, 2) = <<"*", ".">>
    THEN SubSeq(DomainPart(name), 3, Len(DomainPart(name)))
    ELSE DomainPart(name)

\* A string of one or more labels of letters, digits and inner hyphens,
\* separated by single dots
RECURSIVE IsHostname(_)
IsHostname(s) ==
    LET dot == IF Contains(s, ".")
               THEN CHOOSE j \in 1..Len(s) : s[j] = "." /\ \A k \in 1..(j - 1) : s[k] # "."
               ELSE Len(s) + 1
        label == SubSeq(s, 1, dot - 1)
    IN  /\ Len(label) >= 1
        /\ label[1] # "-" /\ label[Len(label)] # "-"
        /\ \A i \in 1..Len(label) : label[i] \in AlphaNum \cup {"-"}
        /\ dot <= Len(s) => IsHostname(SubSeq(s, dot + 1, Len(s)))

\* C23: when EnforceHostnames is set the hostname check runs before every
\* accepting clause: no name whose sanitized domain (the name without its
\* e-mail local part and without a leading "*.") fails the hostname pattern
\* is accepted, AllowAnyName or not.
C23_HostnameEnforced ==
    (Validated /\ last.role.EnforceHostnames /\ ~IsHostname(Sanitized(last.name)))
        => last.bad = last.name

\* A name with an empty label refused under a role that allows any name and
\* enforces hostnames
C23_Witness ==
    /\ last.op = "validate"
    /\ last.name = <<"f", "o", "o", ".", ".">> \o ExampleCom
    /\ last.role.EnforceHostnames
    /\ last.role.AllowAnyName
    /\ last.bad = last.name
    /\ last.res.err = "UserError"

\* C24: the bare "*." and names with an empty subdomain label are not
\* accepted by the subdomain clauses: with AllowAnyName false, "*." is
\* rejected unless its sanitized remainder equals a configured, non-empty
\* allowed base domain (which the empty remainder never does), and
\* ".example.com" is not accepted under AllowedBaseDomain "example.com" with
\* AllowSubdomains; for every display name, the empty one included.
C24_EmptyLabelRefused ==
    (last.op = "edge" /\ ~last.role.AllowAnyName) =>
        /\ last.name = <<"*", ".">> => last.bad = last.name
        /\ (/\ last.name = <<".">> \o ExampleCom
            /\ last.role.AllowedBaseDomain = ExampleCom
            /\ last.role.AllowSubdomains) => last.bad = last.name

\* The bare "*." accepted under a role that allows localhost and subdomains,
\* has no allowed base domain and does not allow any name
C24_BareWildcardAccepted ==
    /\ last.op = "edge"
    /\ last.name = <<"*", ".">>
    /\ last.bad = <<>>
    /\ ~last.role.AllowAnyName
    /\ last.role.AllowLocalhost
    /\ last.role.AllowSubdomains
    /\ ~last.role.AllowTokenDisplayName
    /\ last.role.AllowedBaseDomain = <<>>
    /\ last.displayName = DisplayName

\* The display name of the request the validator was run for
AskedDisplayName == IF last.op = "edge" THEN last.displayName ELSE DisplayName

\* The number of "@" in a name
AtCount(name) == Cardinality({i \in 1..Len(name) : name[i] = "@"})

\* The last name has "@", and the role admits e-mail names
EmailAdmissible ==
    /\ Validated
    /\ Contains(last.name, "@")
    /\ last.role.EmailProtectionFlag \/ last.role.AllowAnyName

\* The validator's verdict on the domain part of the last name, taken alone
DomainAccepted ==
    validateNames(<<DomainPart(last.name)>>, last.role, AskedDisplayName) = <<>>

\* C25 as stated: a name with "@" is admitted only if EmailProtectionFlag or
\* AllowAnyName is set, and the accepting clauses judge it by its domain part,
\* the text to the right of the last "@" (so a@b@localhost is judged by
\* localhost).
C25_JudgedByLastAt ==
    /\ (Validated /\ Contains(last.name, "@") /\ last.bad = <<>>)
           => (last.role.EmailProtectionFlag \/ last.role.AllowAnyName)
    /\ EmailAdmissible => (last.bad = <<>> <=> DomainAccepted)

\* C25, amended: a name with "@" is admitted only if EmailProtectionFlag or
\* AllowAnyName is set and it has exactly one "@"; the accepting clauses then
\* judge it by the text to the right of that "@". A name with more than one
\* "@" (a@b@localhost) is refused under every role.
C25_JudgedByOnlyAt ==
    /\ (Validated /\ Contains(last.name, "@") /\ last.bad = <<>>)
           => (last.role.EmailProtectionFlag \/ last.role.AllowAnyName)
    /\ (EmailAdmissible /\ AtCount(last.name) = 1)
           => (last.bad = <<>> <=> DomainAccepted)
    /\ (Validated /\ AtCount(last.name) > 1) => last.bad = last.name

\* a@b@localhost refused under a role that admits e-mail names and localhost
C25_Witness ==
    /\ last.op = "edge"
    /\ last.name = <<"a", "@", "b", "@">> \o Localhost
    /\ last.role.EmailProtectionFlag
    /\ last.role.AllowLocalhost
    /\ ~last.role.EnforceHostnames
    /\ DomainAccepted
    /\ last.bad = last.name

\* ------------------------------------------- properties: refused requests

\* The handler of the last request returned a validation error: an error
\* response and no Go error
Refused(r) ==
    /\ r.op \in {"role.write", "ca.set"}
    /\ IsNil(r.err)
    /\ ~IsNil(r.resp)
    /\ Deref(r.resp).IsError

\* C26: a role.write or ca.set that returns a validation error leaves every
\* storage key as it was: role/<name>, config/ca_bundle, ca and crl.
C26_RefusedWritesNothing ==
    [][Refused(last') => storage' = storage]_vars

\* A ca.set refused while a role and a CA are stored
C26_Witness ==
    /\ Refused(last)
    /\ last.op = "ca.set"
    /\ ~IsNil(storage[RoleKey("web")])
    /\ ~IsNil(storage["config/ca_bundle"])
    /\ ~IsNil(storage["ca"])

\* ------------------------------------------------- properties: the mirror

\* C27: under any sequence of ca.generateRoot, ca.generateIntermediate, ca.set
\* and ca.sign, after every operation the mirror agrees with the bundle: if
\* the key ca exists, config/ca_bundle holds a certificate whose DER is the
\* bytes at ca.
C27_MirrorNamesBundleCert ==
    ~IsNil(Get(storage, "ca")) =>
        /\ ~IsNil(Get(storage, "config/ca_bundle"))
        /\ ~IsNil(BundleAt(storage).Certificate)
        /\ Get(storage, "ca") = Some(BundleAt(storage).CertificateBytes)

\* After a ca.generateIntermediate that succeeded, ca holds a certificate
\* and config/ca_bundle holds a private key and no certificate
C27_StaleMirror ==
    /\ last.op = "ca.generateIntermediate"
    /\ IsNil(last.err)
    /\ ~IsNil(last.resp) /\ ~Deref(last.resp).IsError
    /\ ~IsNil(Get(storage, "ca"))
    /\ ~IsNil(Get(storage, "config/ca_bundle"))
    /\ IsNil(BundleAt(storage).Certificate)
    /\ ~IsNil(BundleAt(storage).PrivateKey)

\* ----------------------------------- properties: a read beside a change

\* The read has returned and some role.write or role.delete has completed
RaceOver == last.reader = "done" /\ last.completed # <<>>

\* C28: when a role read that migrates a legacy entry (Get, then Put of the
\* migrated entry) runs beside a role.write or role.delete of the same name,
\* no completed write or delete is lost: once all requests have finished,
\* role/<name> holds what the last role.write stored, or nothing after a
\* delete, never the migrated copy of the older entry.
C28_NoLostRoleChange ==
    RaceOver => Get(storage, RoleKey("old")) = last.completed[1]

\* The read has returned, a role.write has completed, and role/old holds the
\* migrated copy of the legacy entry the read had taken before the write
C28_MigratedCopyWins ==
    /\ RaceOver
    /\ last.op = "role.read"
    /\ ~IsNil(last.completed[1])
    /\ Get(storage, RoleKey("old")) = Some(EncodeJSON(Migrated(LegacyRole)))
    /\ Get(storage, RoleKey("old")) # last.completed[1]

====
